---- MODULE Spec2Model ----
(***************************************************************************)
(* A model of the M4D player-reconciliation scripts                        *)
(* (update_player_city.py, batch_update_missing_sites.py,                  *)
(* audit_missing_attributes.py, validate_and_correct_players.py).          *)
(*                                                                         *)
(* A Python str is a sequence of one-character strings, so that            *)
(* str.upper, str.strip, str.replace, str.endswith and the `in` substring  *)
(* test are computed character by character.  Python's None is the value   *)
(* None below, which is no str.                                            *)
(*                                                                         *)
(* The module holds several specifications; each specification leaves the  *)
(* groups of variables it does not use at their idle values:               *)
(*   SpecFlags      set_player_streaming_flags applied to bounded inputs   *)
(*   SpecSelect     filter_players and the LH/PV/combined classification   *)
(*   SpecTranslate  the translate_* functions over bounded dictionaries    *)
(*   SpecBatch      the batch driver (main / process_site)                 *)
(*   SpecDrivers    the single-site driver beside the batch driver         *)
(*   SpecLookup     the find_site_* lookups over bounded CSV rows          *)
(*   SpecRerun      the single-site driver run twice in succession         *)
(*   SpecAudit      the audit driver (main / audit_site)                   *)
(*   SpecValidate   validate_and_correct_player for one player             *)
(*   SpecCsv        the generator iter_csv_rows                            *)
(***************************************************************************)
EXTENDS Integers, Sequences, FiniteSets, TLC

VARIABLES
    \* ---- SpecFlags
    fl_args,        \* the arguments identifier, any_*, is_* of the invocations
    m4d_flags,      \* the vendor system: player id -> streaming variable -> value
    posts,          \* the POST /v1/players/{id}/variables requests issued so far
    \* ---- SpecSelect
    players,        \* the player list returned by GET /v1/players
    site_id,        \* the site id the selection is made for
    target_players, \* the selection function's result
    ctx,            \* any_lh_only / any_pv_only / any_combined of the selection
    cls,            \* per target player: is_combined / is_lh_only / is_pv_only
    sel_pc,         \* which selection function was called ("start" before the call)
    \* ---- SpecTranslate
    dictionaries,   \* dictionaries.json as loaded: dictionary name -> list of (key, value)
    label,          \* the Hebrew label handed to translate_*
    tr_call,        \* the translate function last called ("" before any call)
    tr_result,      \* its outcome
    \* ---- SpecBatch
    disk,           \* which input files exist, and the backlog file's data rows
    m4d_players,    \* the vendor system's player list
    pc,             \* where the batch driver stands
    main,           \* main's locals: original_sites, players_cache, i, remaining_sites
    ps,             \* process_site's locals for the site being processed
    token_no,       \* the number of the token held (0: none requested yet)
    calls,          \* the HTTP requests issued so far, in order
    exc,            \* the exception that ended the run ("" while there is none)
    \* ---- SpecLookup
    csv_rows,       \* the data rows of the site-record CSV
    lk_site,        \* the site id looked up
    lk_dictionaries,\* the dictionaries handed to the lookup
    lk_call,        \* the find_site_* function last called ("" before any call)
    lk_result,      \* its outcome
    \* ---- SpecAudit, SpecValidate, SpecRerun
    m4d_attrs,      \* the vendor system: player id -> city and variables
    m4d_before,     \* m4d_attrs as it was when the modelled run started
    \* ---- SpecCsv
    csv_file,       \* the lines of the CSV file, each with the encodings that decode it
    it,             \* the generator iter_csv_rows: encoding, line, position in the code
    delivered       \* what the consumer received, in order

flagsVars == <<fl_args, m4d_flags, posts>>
selVars   == <<players, site_id, target_players, ctx, cls, sel_pc>>
trVars    == <<dictionaries, label, tr_call, tr_result>>
batchVars == <<disk, m4d_players, pc, main, ps, token_no, calls, exc>>
lookupVars == <<csv_rows, lk_site, lk_dictionaries, lk_call, lk_result>>
serverVars == <<m4d_attrs, m4d_before>>
csvVars   == <<csv_file, it, delivered>>
vars      == <<flagsVars, selVars, trVars, batchVars, lookupVars, serverVars, csvVars>>

-----------------------------------------------------------------------------
(* Python values *)

None == <<"None">>

\* bool(s) of a str-or-None value: None and "" are falsy.
Truthy(s) == s # None /\ s # <<>>

\* `a or b` on str-or-None values.
Or(a, b) == IF Truthy(a) THEN a ELSE b

NBSP == "nbsp"      \* the character U+00A0
Whitespace == {" ", NBSP, "\t"}

UpperChar(c) ==
    CASE c = "l" -> "L"
      [] c = "h" -> "H"
      [] c = "p" -> "P"
      [] c = "v" -> "V"
      [] c = "t" -> "T"
      [] OTHER   -> c

\* str.upper()
Upper(s) == [i \in 1..Len(s) |-> UpperChar(s[i])]

\* str.endswith(suffix)
EndsWith(s, suffix) ==
    /\ Len(suffix) <= Len(s)
    /\ SubSeq(s, Len(s) - Len(suffix) + 1, Len(s)) = suffix

\* `sub in s`
Contains(s, sub) ==
    \E i \in 0..(Len(s) - Len(sub)) : SubSeq(s, i + 1, i + Len(sub)) = sub

\* str.replace(U+00A0, " ")
ReplaceNbsp(s) == [i \in 1..Len(s) |-> IF s[i] = NBSP THEN " " ELSE s[i]]

RECURSIVE LStrip(_)
LStrip(s) == IF s # <<>> /\ Head(s) \in Whitespace THEN LStrip(Tail(s)) ELSE s

RECURSIVE RStrip(_)
RStrip(s) ==
    IF s # <<>> /\ s[Len(s)] \in Whitespace THEN RStrip(SubSeq(s, 1, Len(s) - 1)) ELSE s

\* str.strip()
Strip(s) == RStrip(LStrip(s))

-----------------------------------------------------------------------------
(* set_player_streaming_flags: the streaming-mute decision *)

Hot            == "M4DS_StreamingHot_Muted"
Triple         == "M4DS_StreamingTriple_Muted"
VerticalHot    == "M4DS_StreamingVerticalHot_Muted"
VerticalTriple == "M4DS_StreamingVerticalTriple_Muted"

\* The payload dict's keys, in insertion order.
StreamingNames == <<Hot, Triple, VerticalHot, VerticalTriple>>
StreamingNameSet == {Hot, Triple, VerticalHot, VerticalTriple}

AllFalse == [n \in StreamingNameSet |-> "false"]
OnlyTrue(name) == [AllFalse EXCEPT ![name] = "true"]

Suffix_H == <<"-", "H">>
Suffix_T == <<"-", "T">>

\* Mutant: the suffix is tested on the identifier as given, not on its uppercase form.
StreamingPayload_NoUpper(identifier, any_combined, any_lh_only, any_pv_only, is_combined, is_lh_only, is_pv_only) ==
    LET ends_with_h == EndsWith(identifier, Suffix_H)
        ends_with_t == EndsWith(identifier, Suffix_T)
    IN  IF any_combined
        THEN IF is_combined
             THEN IF any_pv_only /\ ~any_lh_only
                  THEN IF ends_with_h THEN OnlyTrue(Hot)
                       ELSE IF ends_with_t THEN OnlyTrue(Triple) ELSE AllFalse
                  ELSE IF ends_with_h THEN OnlyTrue(VerticalHot)
                       ELSE IF ends_with_t THEN OnlyTrue(VerticalTriple) ELSE AllFalse
             ELSE AllFalse
        ELSE IF any_lh_only /\ any_pv_only /\ is_lh_only
             THEN IF ends_with_h THEN OnlyTrue(Hot)
                  ELSE IF ends_with_t THEN OnlyTrue(Triple) ELSE AllFalse
             ELSE AllFalse

\* Mutant: the alone-is-PV branch is lost, so a combined player always gets a
\* vertical flag.
StreamingPayload_NoAlonePv(identifier, any_combined, any_lh_only, any_pv_only, is_combined, is_lh_only, is_pv_only) ==
    LET id_upper == Upper(identifier)
        ends_with_h == EndsWith(id_upper, Suffix_H)
        ends_with_t == EndsWith(id_upper, Suffix_T)
    IN  IF any_combined
        THEN IF is_combined
             THEN IF ends_with_h THEN OnlyTrue(VerticalHot)
                  ELSE IF ends_with_t THEN OnlyTrue(VerticalTriple) ELSE AllFalse
             ELSE AllFalse
        ELSE IF any_lh_only /\ any_pv_only /\ is_lh_only
             THEN IF ends_with_h THEN OnlyTrue(Hot)
                  ELSE IF ends_with_t THEN OnlyTrue(Triple) ELSE AllFalse
             ELSE AllFalse

\* Mutant: a combined player with both or neither alone type gets the non-vertical
\* flag.
StreamingPayload_ElseNonVertical(identifier, any_combined, any_lh_only, any_pv_only, is_combined, is_lh_only, is_pv_only) ==
    LET id_upper == Upper(identifier)
        ends_with_h == EndsWith(id_upper, Suffix_H)
        ends_with_t == EndsWith(id_upper, Suffix_T)
        alone_is_lh == any_lh_only /\ ~any_pv_only
    IN  IF any_combined
        THEN IF is_combined
             THEN IF alone_is_lh
                  THEN IF ends_with_h THEN OnlyTrue(VerticalHot)
                       ELSE IF ends_with_t THEN OnlyTrue(VerticalTriple) ELSE AllFalse
                  ELSE IF ends_with_h THEN OnlyTrue(Hot)
                       ELSE IF ends_with_t THEN OnlyTrue(Triple) ELSE AllFalse
             ELSE AllFalse
        ELSE IF any_lh_only /\ any_pv_only /\ is_lh_only
             THEN IF ends_with_h THEN OnlyTrue(Hot)
                  ELSE IF ends_with_t THEN OnlyTrue(Triple) ELSE AllFalse
             ELSE AllFalse

\* Mutant: in Case A a PV-only player gets a non-vertical flag like an LH-only one.
StreamingPayload_PvOnlyToo(identifier, any_combined, any_lh_only, any_pv_only, is_combined, is_lh_only, is_pv_only) ==
    LET id_upper == Upper(identifier)
        ends_with_h == EndsWith(id_upper, Suffix_H)
        ends_with_t == EndsWith(id_upper, Suffix_T)
        alone_is_lh == any_lh_only /\ ~any_pv_only
        alone_is_pv == any_pv_only /\ ~any_lh_only
    IN  IF any_combined
        THEN IF is_combined
             THEN IF alone_is_pv
                  THEN IF ends_with_h THEN OnlyTrue(Hot)
                       ELSE IF ends_with_t THEN OnlyTrue(Triple) ELSE AllFalse
                  ELSE IF ends_with_h THEN OnlyTrue(VerticalHot)
                       ELSE IF ends_with_t THEN OnlyTrue(VerticalTriple) ELSE AllFalse
             ELSE AllFalse
        ELSE IF any_lh_only /\ any_pv_only /\ (is_lh_only \/ is_pv_only)
             THEN IF ends_with_h THEN OnlyTrue(Hot)
                  ELSE IF ends_with_t THEN OnlyTrue(Triple) ELSE AllFalse
             ELSE AllFalse

\* Mutant: the Case A block is not under the `else` of `if any_combined`, so it
\* also runs when a combined player exists.
StreamingPayload_CaseAAlways(identifier, any_combined, any_lh_only, any_pv_only, is_combined, is_lh_only, is_pv_only) ==
    LET id_upper == Upper(identifier)
        ends_with_h == EndsWith(id_upper, Suffix_H)
        ends_with_t == EndsWith(id_upper, Suffix_T)
        caseBC ==
            IF any_combined /\ is_combined
            THEN IF any_pv_only /\ ~any_lh_only
                 THEN IF ends_with_h THEN OnlyTrue(Hot)
                      ELSE IF ends_with_t THEN OnlyTrue(Triple) ELSE AllFalse
                 ELSE IF ends_with_h THEN OnlyTrue(VerticalHot)
                      ELSE IF ends_with_t THEN OnlyTrue(VerticalTriple) ELSE AllFalse
            ELSE AllFalse
        caseA ==
            IF any_lh_only /\ any_pv_only /\ is_lh_only
            THEN IF ends_with_h THEN OnlyTrue(Hot)
                 ELSE IF ends_with_t THEN OnlyTrue(Triple) ELSE AllFalse
            ELSE AllFalse
    IN  [n \in StreamingNameSet |->
            IF caseBC[n] = "true" \/ caseA[n] = "true" THEN "true" ELSE "false"]

\* The payload dict built by set_player_streaming_flags before it is posted.
StreamingPayload(identifier, any_combined, any_lh_only, any_pv_only, is_combined, is_lh_only, is_pv_only) ==
    LET id_upper == Upper(identifier)
        ends_with_h == EndsWith(id_upper, Suffix_H)
        ends_with_t == EndsWith(id_upper, Suffix_T)
        alone_is_lh == any_lh_only /\ ~any_pv_only
        alone_is_pv == any_pv_only /\ ~any_lh_only
    IN  IF any_combined
        THEN IF is_combined
             THEN IF alone_is_lh
                  THEN IF ends_with_h THEN OnlyTrue(VerticalHot)
                       ELSE IF ends_with_t THEN OnlyTrue(VerticalTriple) ELSE AllFalse
                  ELSE IF alone_is_pv
                  THEN IF ends_with_h THEN OnlyTrue(Hot)
                       ELSE IF ends_with_t THEN OnlyTrue(Triple) ELSE AllFalse
                  ELSE IF ends_with_h THEN OnlyTrue(VerticalHot)
                       ELSE IF ends_with_t THEN OnlyTrue(VerticalTriple) ELSE AllFalse
             ELSE AllFalse
        ELSE IF any_lh_only /\ any_pv_only /\ is_lh_only
             THEN IF ends_with_h THEN OnlyTrue(Hot)
                  ELSE IF ends_with_t THEN OnlyTrue(Triple) ELSE AllFalse
             ELSE AllFalse

\* body = [{"name": name, "value": value} for name, value in payload.items()]
StreamingBody(payload) ==
    [i \in 1..Len(StreamingNames) |->
        [name |-> StreamingNames[i], value |-> payload[StreamingNames[i]]]]

-----------------------------------------------------------------------------
(* SpecFlags: set_player_streaming_flags applied to bounded inputs *)

MaxPosts == 2

PlayerIds == {101, 102}
Tokens == {"token-a", "token-b"}

Ident_12 == <<"1", "2">>

\* Identifiers handed to set_player_streaming_flags: suffix -H / -T in both cases,
\* no suffix, a suffix-like middle, the bare suffix, and the empty identifier.
FlagIdentifiers ==
    { Ident_12 \o <<"L", "H", "-", "H">>,
      Ident_12 \o <<"P", "V", "_", "L", "H", "-", "T">>,
      Ident_12 \o <<"l", "h", "-", "h">>,
      Ident_12 \o <<"p", "v", "-", "t">>,
      Ident_12 \o <<"L", "H">>,
      Ident_12 \o <<"-", "H", "X">>,
      <<"-", "H">>,
      <<>> }

FlagArgs ==
    [identifier : FlagIdentifiers,
     any_combined : BOOLEAN, any_lh_only : BOOLEAN, any_pv_only : BOOLEAN,
     is_combined : BOOLEAN, is_lh_only : BOOLEAN, is_pv_only : BOOLEAN]

\* The arguments while no invocation is modelled.
IdleArgs ==
    [identifier |-> <<>>,
     any_combined |-> FALSE, any_lh_only |-> FALSE, any_pv_only |-> FALSE,
     is_combined |-> FALSE, is_lh_only |-> FALSE, is_pv_only |-> FALSE]

\* A player's streaming variables before any write: absent, or left by an earlier run.
Unset == [n \in StreamingNameSet |-> "None"]
InitialFlags == {Unset, OnlyTrue(Triple)}

\* Mutant: the payload starts from the player's current values instead of all "false".
StreamingRequest_FromCurrent(token, player_id, identifier, any_combined, any_lh_only, any_pv_only, is_combined, is_lh_only, is_pv_only) ==
    LET fresh == StreamingPayload(identifier, any_combined, any_lh_only, any_pv_only, is_combined, is_lh_only, is_pv_only)
        payload == [n \in StreamingNameSet |->
                       IF fresh[n] = "true" \/ m4d_flags[player_id][n] = "true"
                       THEN "true" ELSE "false"]
    IN  [player_id |-> player_id, token |-> token, body |-> StreamingBody(payload)]

\* The request set_player_streaming_flags issues: POST /v1/players/{player_id}/variables
\* with the bearer token and the body built from the payload.
StreamingRequest(token, player_id, identifier, any_combined, any_lh_only, any_pv_only, is_combined, is_lh_only, is_pv_only) ==
    LET payload == StreamingPayload(identifier, any_combined, any_lh_only, any_pv_only, is_combined, is_lh_only, is_pv_only)
    IN  [player_id |-> player_id, token |-> token, body |-> StreamingBody(payload)]

\* The vendor system's upsert of the variables of a request body.
Upsert(current, body) ==
    [n \in DOMAIN current |->
        IF \E i \in 1..Len(body) : body[i].name = n
        THEN body[CHOOSE i \in 1..Len(body) : body[i].name = n].value
        ELSE current[n]]

\* One invocation of set_player_streaming_flags(token, player_id, identifier, ...):
\* the request is issued; the vendor system applies it and answers 200, or answers
\* with status >= 400 and raise_for_status raises.
SetPlayerStreamingFlags(token, player_id, ok) ==
    /\ Len(posts) < MaxPosts
    /\ LET req == StreamingRequest(token, player_id, fl_args.identifier,
                                   fl_args.any_combined, fl_args.any_lh_only,
                                   fl_args.any_pv_only, fl_args.is_combined,
                                   fl_args.is_lh_only, fl_args.is_pv_only)
       IN  /\ posts' = Append(posts, [player_id |-> req.player_id, token |-> req.token,
                                      body |-> req.body, raised |-> ~ok,
                                      current |-> m4d_flags[player_id]])
           /\ m4d_flags' = IF ok
                           THEN [m4d_flags EXCEPT ![player_id] = Upsert(@, req.body)]
                           ELSE m4d_flags
    /\ UNCHANGED <<fl_args, selVars, trVars, batchVars, lookupVars, serverVars, csvVars>>

FlagsNext ==
    \E token \in Tokens, player_id \in PlayerIds, ok \in BOOLEAN :
        SetPlayerStreamingFlags(token, player_id, ok)

\* The number of "true" values in a request body.
TrueCount(body) == Cardinality({i \in 1..Len(body) : body[i].value = "true"})

\* The name -> value mapping a request body carries.
BodyValue(body, name) == body[CHOOSE i \in 1..Len(body) : body[i].name = name].value

BodyIs(body, payload) ==
    /\ Len(body) = Len(StreamingNames)
    /\ \A i \in 1..Len(body) : body[i].name = StreamingNames[i]
    /\ \A n \in StreamingNameSet : BodyValue(body, n) = payload[n]

ArgsEndH == EndsWith(Upper(fl_args.identifier), Suffix_H)
ArgsEndT == EndsWith(Upper(fl_args.identifier), Suffix_T)

\* C1: every body posted by set_player_streaming_flags carries the four streaming
\* variables with at most one of them "true", whatever the identifier suffix, the
\* any_* context and the is_* classification.
C1_AtMostOneTrue ==
    \A i \in 1..Len(posts) :
        /\ {posts[i].body[k].name : k \in 1..Len(posts[i].body)} = StreamingNameSet
        /\ TrueCount(posts[i].body) <= 1

\* A request with exactly one "true" flag was posted.
C1_Witness ==
    \E i \in 1..Len(posts) : TrueCount(posts[i].body) = 1

\* C2: when any_combined holds and the player is not combined, every posted body
\* has all four flags "false", whatever the suffix and any_lh_only / any_pv_only.
C2_AloneWithCombinedAllFalse ==
    (fl_args.any_combined /\ ~fl_args.is_combined) =>
        \A i \in 1..Len(posts) : BodyIs(posts[i].body, AllFalse)

\* An LH-only player with suffix -H at a site with a combined, an LH-only and a
\* PV-only player was posted its flags.
C2_Witness ==
    /\ fl_args.any_combined /\ ~fl_args.is_combined
    /\ fl_args.is_lh_only /\ fl_args.any_lh_only /\ fl_args.any_pv_only
    /\ ArgsEndH
    /\ posts # <<>>

\* C3: with no combined player, both LH-only and PV-only present and the player
\* LH-only: Hot alone is "true" for suffix -H, Triple alone for suffix -T (suffix of
\* the uppercased identifier), and all four are "false" otherwise.
C3_CaseA_LhOnly ==
    (~fl_args.any_combined /\ fl_args.any_lh_only
        /\ fl_args.any_pv_only /\ fl_args.is_lh_only) =>
        \A i \in 1..Len(posts) :
            BodyIs(posts[i].body,
                   IF ArgsEndH THEN OnlyTrue(Hot)
                   ELSE IF ArgsEndT THEN OnlyTrue(Triple) ELSE AllFalse)

\* The case of C3 with a lower-case suffix: "12lh-h" was posted Hot = "true".
C3_Witness ==
    /\ ~fl_args.any_combined /\ fl_args.any_lh_only
    /\ fl_args.any_pv_only /\ fl_args.is_lh_only
    /\ fl_args.identifier = Ident_12 \o <<"l", "h", "-", "h">>
    /\ \E i \in 1..Len(posts) : BodyValue(posts[i].body, Hot) = "true"

\* C4: a combined player at a site with a combined player and exactly one alone
\* type: alone LH-only gives VerticalHot (-H) or VerticalTriple (-T), alone PV-only
\* gives Hot (-H) or Triple (-T); with neither suffix all four are "false".
C4_CombinedWithOneAlone ==
    (fl_args.any_combined /\ fl_args.is_combined
        /\ fl_args.any_lh_only # fl_args.any_pv_only) =>
        \A i \in 1..Len(posts) :
            BodyIs(posts[i].body,
                   IF fl_args.any_lh_only
                   THEN IF ArgsEndH THEN OnlyTrue(VerticalHot)
                        ELSE IF ArgsEndT THEN OnlyTrue(VerticalTriple) ELSE AllFalse
                   ELSE IF ArgsEndH THEN OnlyTrue(Hot)
                        ELSE IF ArgsEndT THEN OnlyTrue(Triple) ELSE AllFalse)

\* A combined player with suffix -T, alone type PV-only, was posted Triple = "true".
C4_Witness ==
    /\ fl_args.any_combined /\ fl_args.is_combined
    /\ fl_args.any_pv_only /\ ~fl_args.any_lh_only
    /\ ArgsEndT
    /\ \E i \in 1..Len(posts) : BodyValue(posts[i].body, Triple) = "true"

C17_CombinedBothOrNeither ==
    (fl_args.any_combined /\ fl_args.is_combined
        /\ fl_args.any_lh_only = fl_args.any_pv_only) =>
        \A i \in 1..Len(posts) :
            /\ BodyIs(posts[i].body,
                      IF ArgsEndH THEN OnlyTrue(VerticalHot)
                      ELSE IF ArgsEndT THEN OnlyTrue(VerticalTriple) ELSE AllFalse)
            /\ BodyValue(posts[i].body, Hot) = "false"
            /\ BodyValue(posts[i].body, Triple) = "false"

\* A combined player with suffix -T at a site with a combined, an LH-only and a
\* PV-only player was posted VerticalTriple = "true".
C17_Witness ==
    /\ fl_args.any_combined /\ fl_args.is_combined
    /\ fl_args.any_lh_only /\ fl_args.any_pv_only
    /\ ArgsEndT
    /\ \E i \in 1..Len(posts) : BodyValue(posts[i].body, VerticalTriple) = "true"

-----------------------------------------------------------------------------
(* SpecSelect: player selection and the LH / PV / combined classification *)

MaxPlayers == 3

\* A player of GET /v1/players: id is NoId when neither "playerId" nor "id" is
\* present; identifier and name are a str or None.
NoId == 0

Player(id, identifier, name) == [id |-> id, identifier |-> identifier, name |-> name]

Ident_13 == <<"1", "3">>
Tok_LH    == <<"L", "H">>
Tok_PV    == <<"P", "V">>
Tok_PV_LH == <<"P", "V", "_", "L", "H">>
Tok_LH_PV == <<"L", "H", "_", "P", "V">>

PlayerPool ==
    { Player(101, Ident_12 \o Tok_LH \o Suffix_H, None),
      Player(102, Ident_12 \o Tok_PV \o Suffix_T, Ident_12 \o <<" ", "b">>),
      Player(103, Ident_12 \o Tok_PV_LH \o Suffix_H, None),
      Player(104, Ident_12 \o <<"l", "h", "_", "p", "v", "-", "t">>, <<>>),
      Player(105, Ident_13 \o Tok_LH \o Tok_PV, None),
      Player(106, None, Ident_13 \o Tok_LH_PV \o Suffix_H),
      Player(107, <<"X">>, Ident_12 \o Tok_LH),
      Player(NoId, <<" ">> \o Ident_13 \o Tok_PV \o Suffix_H \o <<" ">>, None),
      Player(109, <<>>, None) }

SiteIds == {Ident_12, Ident_13, <<"3">>}

RECURSIVE SeqsUpTo(_, _)
SeqsUpTo(S, n) ==
    IF n = 0 THEN {<<>>}
    ELSE LET shorter == SeqsUpTo(S, n - 1)
         IN  shorter \cup {Append(q, x) : q \in shorter, x \in S}

Range(q) == {q[i] : i \in 1..Len(q)}

\* The condition of the list comprehension of filter_players.
Matches(player, site) ==
    \/ Contains(Or(player.identifier, <<>>), site)
    \/ Contains(Or(player.name, <<>>), site)

\* Mutant: a player without identifier is kept without looking at its name.
FilterPlayers_AbsentKept(all_players, site) ==
    SelectSeq(all_players,
              LAMBDA player : IF Truthy(player.identifier)
                              THEN Contains(player.identifier, site)
                              ELSE TRUE)

\* filter_players(players, site_id)
FilterPlayers(all_players, site) ==
    SelectSeq(all_players, LAMBDA player : Matches(player, site))

\* filter_players_by_site(players, site_id) of the audit script
FilterPlayersBySite(all_players, site) ==
    SelectSeq(all_players, LAMBDA player : Matches(player, site))

Combined(ident) == Contains(ident, Tok_PV_LH) \/ Contains(ident, Tok_LH_PV)

NoContext == [any_lh_only |-> FALSE, any_pv_only |-> FALSE, any_combined |-> FALSE]

\* One iteration of the loop that accumulates the any_* flags over target_players.
ContextStep(c, p) ==
    LET ident_raw == Strip(Or(p.identifier, Or(p.name, <<>>)))
        ident == Upper(ident_raw)
        has_lh == Contains(ident, Tok_LH)
        has_pv == Contains(ident, Tok_PV)
        is_combined == Combined(ident)
    IN  IF is_combined THEN [c EXCEPT !.any_combined = TRUE]
        ELSE IF has_lh /\ ~has_pv THEN [c EXCEPT !.any_lh_only = TRUE]
        ELSE IF has_pv /\ ~has_lh THEN [c EXCEPT !.any_pv_only = TRUE]
        ELSE c

RECURSIVE ContextFrom(_, _)
ContextFrom(c, targets) ==
    IF targets = <<>> THEN c ELSE ContextFrom(ContextStep(c, Head(targets)), Tail(targets))

\* any_lh_only, any_pv_only, any_combined after the loop.
BuildContext(targets) == ContextFrom(NoContext, targets)

\* identifier = (player.get("identifier") or player.get("name", "")).strip()
PlayerIdentifier(player) == Strip(Or(player.identifier, player.name))

\* Mutant: LH-only and PV-only are decided from the LH / PV markers alone.
Classify_MarkersOnly(identifier) ==
    LET ident_upper == Upper(identifier)
    IN  [is_combined |-> Combined(ident_upper),
         is_lh_only  |-> Contains(ident_upper, Tok_LH),
         is_pv_only  |-> Contains(ident_upper, Tok_PV)]

\* The per-player classification made before set_player_streaming_flags is called.
Classify(identifier) ==
    LET ident_upper == Upper(identifier)
        has_lh == Contains(ident_upper, Tok_LH)
        has_pv == Contains(ident_upper, Tok_PV)
        is_combined == Combined(ident_upper)
    IN  [is_combined |-> is_combined,
         is_lh_only  |-> has_lh /\ ~has_pv /\ ~is_combined,
         is_pv_only  |-> has_pv /\ ~has_lh /\ ~is_combined]

\* target_players = filter_players(players, site_id)
FilterPlayersCall ==
    /\ sel_pc = "start"
    /\ target_players' = FilterPlayers(players, site_id)
    /\ sel_pc' = "filter_players"
    /\ UNCHANGED <<players, site_id, ctx, cls, flagsVars, trVars, batchVars, lookupVars, serverVars, csvVars>>

\* target_players = filter_players_by_site(players_cache, site_id)
FilterPlayersBySiteCall ==
    /\ sel_pc = "start"
    /\ target_players' = FilterPlayersBySite(players, site_id)
    /\ sel_pc' = "filter_players_by_site"
    /\ UNCHANGED <<players, site_id, ctx, cls, flagsVars, trVars, batchVars, lookupVars, serverVars, csvVars>>

\* The loop over target_players that sets any_lh_only, any_pv_only, any_combined.
BuildContextCall ==
    /\ sel_pc = "filter_players"
    /\ target_players # <<>>
    /\ ctx' = BuildContext(target_players)
    /\ sel_pc' = "context"
    /\ UNCHANGED <<players, site_id, target_players, cls, flagsVars, trVars, batchVars, lookupVars, serverVars, csvVars>>

\* The classification of the next target player in the update loop; a player
\* without id is skipped before it is classified.
ClassifyNext ==
    /\ sel_pc = "context"
    /\ Len(cls) < Len(target_players)
    /\ LET player == target_players[Len(cls) + 1]
       IN  cls' = Append(cls,
                    IF player.id = NoId
                    THEN [skipped |-> TRUE, identifier |-> PlayerIdentifier(player),
                          is_combined |-> FALSE, is_lh_only |-> FALSE, is_pv_only |-> FALSE]
                    ELSE [skipped |-> FALSE, identifier |-> PlayerIdentifier(player)]
                         @@ Classify(PlayerIdentifier(player)))
    /\ UNCHANGED <<players, site_id, target_players, ctx, sel_pc, flagsVars, trVars, batchVars, lookupVars, serverVars, csvVars>>

SelectNext ==
    \/ FilterPlayersCall
    \/ FilterPlayersBySiteCall
    \/ BuildContextCall
    \/ ClassifyNext

\* The uppercased identifier the classification of a player is made on.
UpperIdent(player) == Upper(Strip(Or(player.identifier, Or(player.name, <<>>))))

\* C5: a classified player has at most one of is_lh_only / is_pv_only / is_combined,
\* and a player whose uppercased identifier contains "PV_LH" or "LH_PV" is combined
\* and neither LH-only nor PV-only; in the site context such a player sets
\* any_combined and nothing else.
C5_ClassificationExclusive ==
    /\ \A k \in 1..Len(cls) :
          ~cls[k].skipped =>
            /\ Cardinality({f \in {"c", "l", "p"} :
                              \/ f = "c" /\ cls[k].is_combined
                              \/ f = "l" /\ cls[k].is_lh_only
                              \/ f = "p" /\ cls[k].is_pv_only}) <= 1
            /\ Combined(UpperIdent(target_players[k])) =>
                  cls[k].is_combined /\ ~cls[k].is_lh_only /\ ~cls[k].is_pv_only
    /\ sel_pc = "context" =>
          /\ (\E k \in 1..Len(target_players) : Combined(UpperIdent(target_players[k])))
                => ctx.any_combined
          /\ (\A k \in 1..Len(target_players) : Combined(UpperIdent(target_players[k])))
                => ~ctx.any_lh_only /\ ~ctx.any_pv_only

\* A selection of combined players only, one written in lower case, was classified:
\* the context has any_combined alone and the player is combined.
C5_Witness ==
    /\ sel_pc = "context"
    /\ ctx = [any_lh_only |-> FALSE, any_pv_only |-> FALSE, any_combined |-> TRUE]
    /\ \E k \in 1..Len(cls) :
          /\ target_players[k].identifier = Ident_12 \o <<"l", "h", "_", "p", "v", "-", "t">>
          /\ cls[k].is_combined /\ ~cls[k].is_lh_only /\ ~cls[k].is_pv_only

\* C7: every player a selection function returns is a player of the input list
\* whose identifier or name contains the site id.
C7_SelectionIsSubstringFilter ==
    sel_pc # "start" =>
        \A k \in 1..Len(target_players) :
            /\ target_players[k] \in Range(players)
            /\ \/ /\ Truthy(target_players[k].identifier)
                  /\ Contains(target_players[k].identifier, site_id)
               \/ /\ Truthy(target_players[k].name)
                  /\ Contains(target_players[k].name, site_id)

\* A selection that kept one player by its name and dropped another player.
C7_Witness ==
    /\ sel_pc # "start"
    /\ Len(target_players) < Len(players)
    /\ \E k \in 1..Len(target_players) :
          /\ target_players[k].identifier = None
          /\ Contains(target_players[k].name, site_id)

\* The payload a classified target player is sent, in the context of its site.
PayloadOf(k) ==
    StreamingPayload(cls[k].identifier, ctx.any_combined, ctx.any_lh_only, ctx.any_pv_only, cls[k].is_combined, cls[k].is_lh_only, cls[k].is_pv_only)

\* C18: at a site with no combined player, every player outside the case
\* (any_lh_only and any_pv_only and this player LH-only with suffix -H or -T) gets
\* all four flags "false"; at a site whose matched players are all LH-only, or all
\* PV-only, no player is sent a "true" flag.
C18_NoCombinedAllFalse ==
    (sel_pc = "context" /\ ~ctx.any_combined) =>
        \A k \in 1..Len(cls) :
            ~cls[k].skipped =>
                LET id_upper == Upper(cls[k].identifier)
                    muted == /\ ctx.any_lh_only /\ ctx.any_pv_only /\ cls[k].is_lh_only
                             /\ (EndsWith(id_upper, Suffix_H) \/ EndsWith(id_upper, Suffix_T))
                    one_type ==
                        \/ \A j \in 1..Len(target_players) :
                              Classify(PlayerIdentifier(target_players[j])).is_lh_only
                        \/ \A j \in 1..Len(target_players) :
                              Classify(PlayerIdentifier(target_players[j])).is_pv_only
                IN  /\ ~muted => PayloadOf(k) = AllFalse
                    /\ one_type => PayloadOf(k) = AllFalse

\* A site whose only matched player is LH-only with suffix -H: it is classified and
\* sent all four flags "false".
C18_Witness ==
    /\ sel_pc = "context" /\ ~ctx.any_combined
    /\ Len(target_players) = 1 /\ Len(cls) = 1
    /\ ~cls[1].skipped /\ cls[1].is_lh_only
    /\ EndsWith(Upper(cls[1].identifier), Suffix_H)
    /\ PayloadOf(1) = AllFalse

\* C19: the selection is, in input order and without duplication, exactly the
\* players whose identifier contains the site id, the name being consulted only
\* for a player whose identifier is absent (None or empty); a player whose
\* identifier is present and does not contain the site id is not selected.
C19_NameOnlyWhenIdentifierAbsent ==
    sel_pc # "start" =>
        target_players =
            SelectSeq(players,
                      LAMBDA player :
                          IF Truthy(player.identifier)
                          THEN Contains(player.identifier, site_id)
                          ELSE Contains(Or(player.name, <<>>), site_id))

-----------------------------------------------------------------------------
(* SpecTranslate: the translate_* functions over bounded dictionaries *)

MaxDictLen == 2

DictNames == {"cities_dictionary", "reseller_dictionary", "ISP_dictionary", "sector_dictionary"}

\* Hebrew labels, some differing only by a non-breaking space or by padding.
DictKeys ==
    { <<"a">>, <<"a", NBSP>>, <<"a", " ", "b">>, <<"a", NBSP, "b">>, <<"b">>, <<" ", "b">> }

\* Vendor codes.
DictValues == { <<"X">>, <<"Y">> }

GENERAL == <<"G", "E", "N", "E", "R", "A", "L">>

\* key.replace(" ", " ").strip()
Normalize(s) == Strip(ReplaceNbsp(s))

\* A JSON object as loaded: its (key, value) items in file order, the keys distinct.
Dicts ==
    { d \in SeqsUpTo([key : DictKeys, value : DictValues], MaxDictLen) :
        \A i, j \in 1..Len(d) : d[i].key = d[j].key => i = j }

\* The labels handed to translate_*: normalized CSV values, one of them in no
\* dictionary, and one that still holds a non-breaking space.
Labels == {Normalize(k) : k \in DictKeys} \cup { <<"c">>, <<"a", NBSP, "b">> }

\* dictionaries.get(name, {})
Get(dicts, name) == IF name \in DOMAIN dicts THEN dicts[name] ELSE <<>>

Return(value) == [outcome |-> "return", value |-> value]
Raise(error)  == [outcome |-> error, value |-> None]

\* Mutant: the key is compared as stored, without replace / strip.
RECURSIVE FirstMatch_RawKey(_, _, _)
FirstMatch_RawKey(d, he, missing) ==
    IF d = <<>> THEN missing
    ELSE IF Head(d).key = he THEN Return(Head(d).value)
    ELSE FirstMatch_RawKey(Tail(d), he, missing)

\* for key, value in d.items(): if key.replace(" ", " ").strip() == he: return value
\* and, after the loop, the function's last statement.
RECURSIVE FirstMatch(_, _, _)
FirstMatch(d, he, missing) ==
    IF d = <<>> THEN missing
    ELSE IF Normalize(Head(d).key) = he THEN Return(Head(d).value)
    ELSE FirstMatch(Tail(d), he, missing)

\* update_player_city.translate_city
TranslateCity(city_he, dicts) ==
    FirstMatch(Get(dicts, "cities_dictionary"), city_he, Raise("RuntimeError"))

\* update_player_city.translate_reseller
TranslateReseller(reseller_he, dicts) ==
    FirstMatch(Get(dicts, "reseller_dictionary"), reseller_he, Raise("RuntimeError"))

\* update_player_city.translate_isp
TranslateIsp(isp_he, dicts) ==
    FirstMatch(Get(dicts, "ISP_dictionary"), isp_he, Raise("RuntimeError"))

\* validate_and_correct_players.translate_city
ValidateTranslateCity(city_he, dicts) ==
    FirstMatch(Get(dicts, "cities_dictionary"), city_he, Return(None))

\* validate_and_correct_players.translate_reseller
ValidateTranslateReseller(reseller_he, dicts) ==
    FirstMatch(Get(dicts, "reseller_dictionary"), reseller_he, Return(None))

\* Mutant: translate_sector ends like translate_city, with no default code.
TranslateSector_NoDefault(sector_he, dicts) ==
    FirstMatch(Get(dicts, "sector_dictionary"), sector_he, Return(None))

\* validate_and_correct_players.translate_sector
TranslateSector(sector_he, dicts) ==
    FirstMatch(Get(dicts, "sector_dictionary"), sector_he, Return(GENERAL))

TranslateCityCall ==
    /\ tr_call = ""
    /\ tr_call' = "translate_city"
    /\ tr_result' = TranslateCity(label, dictionaries)
    /\ UNCHANGED <<dictionaries, label, flagsVars, selVars, batchVars, lookupVars, serverVars, csvVars>>

TranslateResellerCall ==
    /\ tr_call = ""
    /\ tr_call' = "translate_reseller"
    /\ tr_result' = TranslateReseller(label, dictionaries)
    /\ UNCHANGED <<dictionaries, label, flagsVars, selVars, batchVars, lookupVars, serverVars, csvVars>>

TranslateIspCall ==
    /\ tr_call = ""
    /\ tr_call' = "translate_isp"
    /\ tr_result' = TranslateIsp(label, dictionaries)
    /\ UNCHANGED <<dictionaries, label, flagsVars, selVars, batchVars, lookupVars, serverVars, csvVars>>

ValidateTranslateCityCall ==
    /\ tr_call = ""
    /\ tr_call' = "validate.translate_city"
    /\ tr_result' = ValidateTranslateCity(label, dictionaries)
    /\ UNCHANGED <<dictionaries, label, flagsVars, selVars, batchVars, lookupVars, serverVars, csvVars>>

ValidateTranslateResellerCall ==
    /\ tr_call = ""
    /\ tr_call' = "validate.translate_reseller"
    /\ tr_result' = ValidateTranslateReseller(label, dictionaries)
    /\ UNCHANGED <<dictionaries, label, flagsVars, selVars, batchVars, lookupVars, serverVars, csvVars>>

TranslateSectorCall ==
    /\ tr_call = ""
    /\ tr_call' = "translate_sector"
    /\ tr_result' = TranslateSector(label, dictionaries)
    /\ UNCHANGED <<dictionaries, label, flagsVars, selVars, batchVars, lookupVars, serverVars, csvVars>>

TranslateNext ==
    \/ TranslateCityCall
    \/ TranslateResellerCall
    \/ TranslateIspCall
    \/ ValidateTranslateCityCall
    \/ ValidateTranslateResellerCall
    \/ TranslateSectorCall

\* The dictionary a translate function reads.
DictOf(call) ==
    CASE call \in {"translate_city", "validate.translate_city"} -> "cities_dictionary"
      [] call \in {"translate_reseller", "validate.translate_reseller"} -> "reseller_dictionary"
      [] call = "translate_isp" -> "ISP_dictionary"
      [] call = "translate_sector" -> "sector_dictionary"

\* The dictionary read by the call made, and the positions of its keys that
\* match the label once normalized.
CalledDict == Get(dictionaries, DictOf(tr_call))
MatchingKeys == {i \in 1..Len(CalledDict) : Normalize(CalledDict[i].key) = label}

\* C8: when no normalized key equals the label, translate_city / translate_reseller /
\* translate_isp end without a code (RuntimeError in update_player_city, None in
\* validate_and_correct_players) and translate_sector returns "GENERAL"; when a key
\* matches, each returns the code mapped to a matching key.
C8_MissingLabelOutcome ==
    tr_call # "" =>
        /\ MatchingKeys = {} =>
              /\ tr_call \in {"translate_city", "translate_reseller", "translate_isp"}
                    => tr_result = Raise("RuntimeError")
              /\ tr_call \in {"validate.translate_city", "validate.translate_reseller"}
                    => tr_result = Return(None)
              /\ tr_call = "translate_sector" => tr_result = Return(GENERAL)
        /\ MatchingKeys # {} =>
              \E i \in MatchingKeys : tr_result = Return(CalledDict[i].value)

\* translate_sector was called with a label that a non-empty sector dictionary
\* does not hold, and returned "GENERAL".
C8_Witness ==
    /\ tr_call = "translate_sector"
    /\ CalledDict # <<>>
    /\ MatchingKeys = {}
    /\ tr_result = Return(GENERAL)

\* C9 (as claimed): translating the normalized form of any key returns the value
\* mapped to that key.
C9_RoundTripEveryKey ==
    tr_call # "" =>
        \A i \in 1..Len(CalledDict) :
            label = Normalize(CalledDict[i].key) => tr_result = Return(CalledDict[i].value)

\* C9 (amended): translating the normalized form of a key returns the value mapped
\* to the first key of the dictionary, in file order, with that normalized form.
C9_RoundTripFirstKey ==
    tr_call # "" =>
        \A i \in 1..Len(CalledDict) :
            ( /\ label = Normalize(CalledDict[i].key)
              /\ \A j \in 1..(i - 1) : Normalize(CalledDict[j].key) # label )
            => tr_result = Return(CalledDict[i].value)

\* A dictionary in which two keys differ only by a non-breaking space, with
\* different codes, was asked for their common normalized form.
C9_Witness ==
    /\ tr_call # ""
    /\ Cardinality(MatchingKeys) = 2
    /\ \E i, j \in MatchingKeys :
          /\ i < j
          /\ CalledDict[i].value # CalledDict[j].value
          /\ NBSP \in Range(CalledDict[i].key)
          /\ tr_result = Return(CalledDict[i].value)

-----------------------------------------------------------------------------
(* SpecBatch: batch_update_missing_sites.main and process_site *)

MaxBacklog == 2
MaxFailures == 2

Ident_14 == <<"1", "4">>
Ident_15 == <<"1", "5">>
Ident_99 == <<"9", "9">>
Ident_3  == <<"3">>

\* The data rows of the site-record CSV: site id, city, reseller, ISP.
CsvRow(site, city, reseller, isp) ==
    [site |-> site, city |-> city, reseller |-> reseller, isp |-> isp]

CsvTable ==
    << CsvRow(Ident_12, <<"a">>, <<"b">>, <<"i">>),
       CsvRow(Ident_13, <<"a", NBSP>>, <<" ", "b">>, <<"i">>),
       CsvRow(Ident_14, <<"c">>, <<"b">>, <<"i">>),
       CsvRow(Ident_15, <<" ">>, <<"b">>, <<"i">>),
       CsvRow(Ident_3, <<"a">>, <<"e">>, <<"i">>) >>

\* dictionaries.json as loaded by load_dictionaries.
BatchDictionaries ==
    [cities_dictionary   |-> << [key |-> <<"a">>, value |-> <<"X">>] >>,
     reseller_dictionary |-> << [key |-> <<"b">>, value |-> <<"Y">>],
                                [key |-> <<"e">>, value |-> <<>>] >>,
     ISP_dictionary      |-> << [key |-> <<"i">>, value |-> <<"Z">>] >>,
     sector_dictionary   |-> <<>>]

\* The vendor system's players: two with an id and one without at site 12, one at
\* site 13.
BatchPlayers ==
    << Player(101, Ident_12 \o Tok_LH \o Suffix_H, None),
       Player(NoId, Ident_12 \o <<"X">>, None),
       Player(102, Ident_12 \o Tok_PV \o Suffix_T, None),
       Player(105, Ident_13 \o Tok_PV_LH \o Suffix_H, None) >>

\* Rows of missing_player_attributes.csv: site id and note.
BacklogRows ==
    { <<Ident_12, <<>>>>,
      <<Ident_13, <<"old">>>>,
      <<<<" ">> \o Ident_12, <<"dup">>>>,
      <<Ident_14, <<" ", "old">>>>,
      <<Ident_99, <<>>>>,
      <<Ident_3, <<>>>> }

\* find_site_city / find_site_reseller / find_site_isp of update_player_city: the
\* first row of the site decides; a blank value and a missing site raise.
RECURSIVE FindSiteField(_, _, _)
FindSiteField(rows, site, column) ==
    IF rows = <<>> THEN Raise("RuntimeError")
    ELSE IF Head(rows).site = site
         THEN LET value == Strip(ReplaceNbsp(Head(rows)[column]))
              IN  IF value = <<>> THEN Raise("RuntimeError") ELSE Return(value)
         ELSE FindSiteField(Tail(rows), site, column)

\* load_missing_sites: (site_id, note) of each row whose stripped site id is not
\* empty and was not seen before.
RECURSIVE LoadMissingSites(_, _)
LoadMissingSites(rows, seen) ==
    IF rows = <<>> THEN <<>>
    ELSE LET site == Strip(Head(rows)[1])
             note == Strip(Head(rows)[2])
         IN  IF site = <<>> \/ site \in seen
             THEN LoadMissingSites(Tail(rows), seen)
             ELSE <<[site_id |-> site, note |-> note]>>
                     \o LoadMissingSites(Tail(rows), seen \cup {site})

\* PlayerSteps with the ISP written before the reseller.
PlayerSteps_IspFirst ==
    << "token", "fetch_player", "patch_city", "token", "set_isp",
       "token", "set_reseller", "token", "set_flags", "token", "fetch_player" >>

\* The calls of one player's update sequence, in program order.
PlayerSteps ==
    << "token", "fetch_player", "patch_city", "token", "set_reseller",
       "token", "set_isp", "token", "set_flags", "token", "fetch_player" >>

NoFrame ==
    [site_id |-> <<>>, city_en |-> <<>>, reseller_en |-> <<>>, isp_en |-> <<>>,
     target_players |-> <<>>, context |-> NoContext, j |-> 0, step |-> 0,
     had_error |-> FALSE]

NoMain ==
    [original_sites |-> <<>>, players_cache |-> <<>>, i |-> 0,
     remaining_sites |-> <<>>, dictionaries |-> <<>>]

Failures == Cardinality({k \in 1..Len(calls) : ~calls[k].ok})

\* The outcomes of one HTTP request: an answer, or (within the model's bound on
\* failures) a status >= 400 or a transport error, which raises.
Outcomes == IF Failures < MaxFailures THEN BOOLEAN ELSE {TRUE}

Call(op, player_id, ok) ==
    [op |-> op, player_id |-> player_id, ok |-> ok, token |-> token_no,
     site |-> ps.site_id]

\* An uncaught exception leaves main: the run ends.
Crash(error) ==
    /\ pc' = "crashed"
    /\ exc' = error

\* main: the backlog file must exist.
CheckMissingSitesFile ==
    /\ pc = "start"
    /\ IF disk.missing_exists
       THEN pc' = "load" /\ exc' = exc
       ELSE Crash("FileNotFoundError")
    /\ UNCHANGED <<disk, m4d_players, main, ps, token_no, calls, flagsVars, selVars, trVars, lookupVars, serverVars, csvVars>>

\* main: load_missing_sites and load_dictionaries.
LoadInputs ==
    /\ pc = "load"
    /\ IF disk.dict_exists
       THEN /\ main' = [main EXCEPT !.original_sites = LoadMissingSites(disk.backlog, {}),
                                    !.dictionaries = BatchDictionaries]
            /\ pc' = "credentials" /\ exc' = exc
       ELSE /\ Crash("FileNotFoundError")
            /\ main' = [main EXCEPT !.original_sites = LoadMissingSites(disk.backlog, {})]
    /\ UNCHANGED <<disk, m4d_players, ps, token_no, calls, flagsVars, selVars, trVars, lookupVars, serverVars, csvVars>>

\* main: get_api_credentials raises when the API key or the organization is empty.
GetApiCredentials(given) ==
    /\ pc = "credentials"
    /\ IF given THEN pc' = "token" /\ exc' = exc ELSE Crash("RuntimeError")
    /\ UNCHANGED <<disk, m4d_players, main, ps, token_no, calls, flagsVars, selVars, trVars, lookupVars, serverVars, csvVars>>

\* main: token_no = request_token(api_key, organization)
StartupToken(ok) ==
    /\ pc = "token"
    /\ calls' = Append(calls, Call("token", NoId, ok))
    /\ IF ok
       THEN token_no' = token_no + 1 /\ pc' = "players" /\ exc' = exc
       ELSE token_no' = token_no /\ Crash("HTTPError")
    /\ UNCHANGED <<disk, m4d_players, main, ps, flagsVars, selVars, trVars, lookupVars, serverVars, csvVars>>

\* main: players_cache = fetch_players(token_no)
PrefetchPlayers(ok) ==
    /\ pc = "players"
    /\ calls' = Append(calls, Call("players", NoId, ok))
    /\ IF ok
       THEN /\ main' = [main EXCEPT !.players_cache = m4d_players, !.i = 1]
            /\ pc' = "loop" /\ exc' = exc
       ELSE /\ main' = main
            /\ Crash("HTTPError")
    /\ UNCHANGED <<disk, m4d_players, ps, token_no, flagsVars, selVars, trVars, lookupVars, serverVars, csvVars>>

\* AfterSite that keeps every site in the backlog, resolved or not.
AfterSite_KeepResolved(resolved, note) ==
    LET entry == main.original_sites[main.i]
    IN  [main EXCEPT !.i = @ + 1,
                     !.remaining_sites =
                        Append(@, [site_id |-> entry.site_id,
                                   note |-> Or(note, entry.note)])]

\* main's loop body after process_site returned (resolved, note).
AfterSite(resolved, note) ==
    LET entry == main.original_sites[main.i]
    IN  [main EXCEPT !.i = @ + 1,
                     !.remaining_sites =
                        IF resolved THEN @
                        ELSE Append(@, [site_id |-> entry.site_id,
                                        note |-> Or(note, entry.note)])]

\* process_site up to its first request: the two files must exist, the site's
\* city, reseller and ISP are looked up and translated.
BeginSite ==
    /\ pc = "loop"
    /\ main.i <= Len(main.original_sites)
    /\ LET site == main.original_sites[main.i].site_id
           city_he == FindSiteField(CsvTable, site, "city")
           reseller_he == FindSiteField(CsvTable, site, "reseller")
           isp_he == FindSiteField(CsvTable, site, "isp")
           found == /\ city_he.outcome = "return"
                    /\ reseller_he.outcome = "return"
                    /\ isp_he.outcome = "return"
           city_en == TranslateCity(city_he.value, main.dictionaries)
           reseller_en == TranslateReseller(reseller_he.value, main.dictionaries)
           isp_en == TranslateIsp(isp_he.value, main.dictionaries)
           translated == /\ city_en.outcome = "return"
                         /\ reseller_en.outcome = "return"
                         /\ isp_en.outcome = "return"
       IN  IF ~disk.csv_exists \/ ~disk.dict_exists
           THEN /\ Crash("FileNotFoundError")
                /\ ps' = [NoFrame EXCEPT !.site_id = site]
                /\ main' = main
           ELSE IF ~found
           THEN /\ main' = AfterSite(FALSE, <<"Failed to read CSV data">>)
                /\ ps' = [NoFrame EXCEPT !.site_id = site]
                /\ pc' = "loop" /\ exc' = exc
           ELSE IF ~translated
           THEN /\ main' = AfterSite(FALSE, <<"not found in dictionary">>)
                /\ ps' = [NoFrame EXCEPT !.site_id = site]
                /\ pc' = "loop" /\ exc' = exc
           ELSE /\ ps' = [NoFrame EXCEPT !.site_id = site,
                                         !.city_en = city_en.value,
                                         !.reseller_en = reseller_en.value,
                                         !.isp_en = isp_en.value]
                /\ main' = main
                /\ pc' = "site_token" /\ exc' = exc
    /\ UNCHANGED <<disk, m4d_players, token_no, calls, flagsVars, selVars, trVars, lookupVars, serverVars, csvVars>>

\* process_site from filter_players to the start of the loop over the players.
Selected(frame, all_players) ==
    LET targets == FilterPlayers(all_players, frame.site_id)
    IN  [frame EXCEPT !.target_players = targets,
                      !.context = BuildContext(targets),
                      !.j = 1, !.step = 1]

\* Where process_site goes once it holds the player list.
AfterPlayers(all_players) ==
    IF FilterPlayers(all_players, ps.site_id) = <<>>
    THEN /\ main' = AfterSite(FALSE, <<"No players found">>)
         /\ ps' = ps
         /\ pc' = "loop"
    ELSE /\ main' = main
         /\ ps' = Selected(ps, all_players)
         /\ pc' = "player"

\* process_site: token_no = request_token(api_key, organization), outside any try.
SiteToken(ok) ==
    /\ pc = "site_token"
    /\ calls' = Append(calls, Call("token", NoId, ok))
    /\ IF ~ok
       THEN /\ Crash("HTTPError")
            /\ UNCHANGED <<main, ps, token_no>>
       ELSE /\ token_no' = token_no + 1
            /\ exc' = exc
            /\ IF main.players_cache # <<>>
               THEN AfterPlayers(main.players_cache)
               ELSE pc' = "site_players" /\ UNCHANGED <<main, ps>>
    /\ UNCHANGED <<disk, m4d_players, flagsVars, selVars, trVars, lookupVars, serverVars, csvVars>>

\* process_site: players = players_cache or fetch_players(token_no), the cache empty.
SiteFetchPlayers(ok) ==
    /\ pc = "site_players"
    /\ calls' = Append(calls, Call("players", NoId, ok))
    /\ IF ~ok
       THEN /\ Crash("HTTPError")
            /\ UNCHANGED <<main, ps>>
       ELSE /\ exc' = exc
            /\ AfterPlayers(m4d_players)
    /\ UNCHANGED <<disk, m4d_players, token_no, flagsVars, selVars, trVars, lookupVars, serverVars, csvVars>>

\* The player the loop of process_site stands at.
CurrentPlayer == ps.target_players[ps.j]

\* The loop passes to the next player, or ends.
NextPlayer(frame) == [frame EXCEPT !.j = @ + 1, !.step = 1]

\* A player without id is skipped.
SkipPlayer ==
    /\ pc = "player"
    /\ ps.j <= Len(ps.target_players)
    /\ CurrentPlayer.id = NoId
    /\ ps' = NextPlayer(ps)
    /\ UNCHANGED <<disk, m4d_players, pc, main, token_no, calls, exc, flagsVars, selVars, trVars, lookupVars, serverVars, csvVars>>

\* What GET /v1/players/{id} returns of a player: coordinates.city and the
\* variables the drivers write and the audit reads. A variable that is absent is
\* None ("None" for a streaming variable), one that is present and empty is <<>>
\* ("").
Attrs(city, reseller, isp, flags) ==
    [city |-> city, reseller |-> reseller, isp |-> isp, flags |-> flags]

\* The players of the vendor system before a run: nothing set, or values left by
\* an earlier run for another site.
BlankAttrs == Attrs(None, None, None, Unset)
StaleAttrs == Attrs(<<"Q">>, <<"R">>, <<>>, OnlyTrue(Triple))

DriverPlayerIds == {101, 102, 105}

\* The payload of set_player_streaming_flags for a player of the frame's site.
FramePayload(frame, player) ==
    LET identifier == PlayerIdentifier(player)
        c == Classify(identifier)
    IN  StreamingPayload(identifier, frame.context.any_combined, frame.context.any_lh_only,
                         frame.context.any_pv_only, c.is_combined, c.is_lh_only, c.is_pv_only)

\* UpdateWritten with streaming flags that depend on the player's current values: a
\* flag is set only where it is not set yet.
UpdateWritten_Toggle(attrs, op, frame, player) ==
    CASE op = "patch_city"   -> [attrs EXCEPT !.city = frame.city_en]
      [] op = "set_reseller" -> [attrs EXCEPT !.reseller = frame.reseller_en]
      [] op = "set_isp"      -> [attrs EXCEPT !.isp = frame.isp_en]
      [] op = "set_flags"    ->
            [attrs EXCEPT !.flags =
                [n \in StreamingNameSet |->
                    IF FramePayload(frame, player)[n] = "true" /\ attrs.flags[n] # "true"
                    THEN "true" ELSE "false"]]
      [] OTHER               -> attrs

\* The player in the vendor system after a successful write request of a driver.
UpdateWritten(attrs, op, frame, player) ==
    CASE op = "patch_city"   -> [attrs EXCEPT !.city = frame.city_en]
      [] op = "set_reseller" -> [attrs EXCEPT !.reseller = frame.reseller_en]
      [] op = "set_isp"      -> [attrs EXCEPT !.isp = frame.isp_en]
      [] op = "set_flags"    ->
            [attrs EXCEPT !.flags = Upsert(@, StreamingBody(FramePayload(frame, player)))]
      [] OTHER               -> attrs

\* set_player_reseller and set_player_isp return without a request when the value
\* to write is empty.
NoRequest(op) ==
    \/ op = "set_reseller" /\ ~Truthy(ps.reseller_en)
    \/ op = "set_isp" /\ ~Truthy(ps.isp_en)

\* The vendor system after one step of a player's try block.
Applied(op, ok) ==
    IF ok /\ ~NoRequest(op)
    THEN [m4d_attrs EXCEPT ![CurrentPlayer.id] = UpdateWritten(@, op, ps, CurrentPlayer)]
    ELSE m4d_attrs

\* PlayerStep with a failed request that is issued again.
PlayerStep_Retry(op, ok) ==
    /\ pc = "player"
    /\ ps.j <= Len(ps.target_players)
    /\ CurrentPlayer.id # NoId
    /\ PlayerSteps[ps.step] = op
    /\ NoRequest(op) => ok
    /\ calls' = IF NoRequest(op) THEN calls ELSE Append(calls, Call(op, CurrentPlayer.id, ok))
    /\ m4d_attrs' = Applied(op, ok)
    /\ token_no' = IF op = "token" /\ ok THEN token_no + 1 ELSE token_no
    /\ ps' = IF ~ok THEN [ps EXCEPT !.had_error = TRUE]
             ELSE IF ps.step = Len(PlayerSteps) THEN NextPlayer(ps)
             ELSE [ps EXCEPT !.step = @ + 1]
    /\ UNCHANGED <<disk, m4d_players, pc, main, exc, flagsVars, selVars, trVars, lookupVars, m4d_before, csvVars>>

\* PlayerStep with a failure that ends the loop over the site's players.
PlayerStep_AbortSite(op, ok) ==
    /\ pc = "player"
    /\ ps.j <= Len(ps.target_players)
    /\ CurrentPlayer.id # NoId
    /\ PlayerSteps[ps.step] = op
    /\ NoRequest(op) => ok
    /\ calls' = IF NoRequest(op) THEN calls ELSE Append(calls, Call(op, CurrentPlayer.id, ok))
    /\ m4d_attrs' = Applied(op, ok)
    /\ token_no' = IF op = "token" /\ ok THEN token_no + 1 ELSE token_no
    /\ ps' = IF ~ok THEN [ps EXCEPT !.j = Len(ps.target_players) + 1, !.step = 1,
                                    !.had_error = TRUE]
             ELSE IF ps.step = Len(PlayerSteps) THEN NextPlayer(ps)
             ELSE [ps EXCEPT !.step = @ + 1]
    /\ UNCHANGED <<disk, m4d_players, pc, main, exc, flagsVars, selVars, trVars, lookupVars, m4d_before, csvVars>>

\* One step of the try block of a player: a request of the given kind; when it
\* raises, the except clause sets had_error and the loop passes to the next player.
PlayerStep(op, ok) ==
    /\ pc = "player"
    /\ ps.j <= Len(ps.target_players)
    /\ CurrentPlayer.id # NoId
    /\ PlayerSteps[ps.step] = op
    /\ NoRequest(op) => ok
    /\ calls' = IF NoRequest(op) THEN calls ELSE Append(calls, Call(op, CurrentPlayer.id, ok))
    /\ m4d_attrs' = Applied(op, ok)
    /\ token_no' = IF op = "token" /\ ok THEN token_no + 1 ELSE token_no
    /\ ps' = IF ~ok THEN [NextPlayer(ps) EXCEPT !.had_error = TRUE]
             ELSE IF ps.step = Len(PlayerSteps) THEN NextPlayer(ps)
             ELSE [ps EXCEPT !.step = @ + 1]
    /\ UNCHANGED <<disk, m4d_players, pc, main, exc, flagsVars, selVars, trVars, lookupVars, m4d_before, csvVars>>

\* token = request_token(api_key, organization) inside the try block
PlayerToken(ok) == PlayerStep("token", ok)

\* fetch_player(token_no, player_id): the current state, and the updated state
FetchPlayer(ok) == PlayerStep("fetch_player", ok)

\* patch_player_city(token_no, player_id, city_en)
PatchPlayerCity(ok) == PlayerStep("patch_city", ok)

\* set_player_reseller(token_no, player_id, reseller_en)
SetPlayerReseller(ok) == PlayerStep("set_reseller", ok)

\* set_player_isp(token_no, player_id, isp_en)
SetPlayerIsp(ok) == PlayerStep("set_isp", ok)

\* set_player_streaming_flags(token_no, player_id, identifier, ...)
SetPlayerFlags(ok) == PlayerStep("set_flags", ok)

\* process_site returns after the loop; main keeps or drops the site.
SiteReturn ==
    /\ pc = "player"
    /\ ps.j > Len(ps.target_players)
    /\ main' = IF ps.had_error
               THEN AfterSite(FALSE, <<"One or more players failed to update">>)
               ELSE AfterSite(TRUE, <<>>)
    /\ pc' = "loop"
    /\ UNCHANGED <<disk, m4d_players, ps, token_no, calls, exc, flagsVars, selVars, trVars, lookupVars, serverVars, csvVars>>

\* WriteMissingSites called in the loop, after each site.
WriteMissingSites_AfterEachSite ==
    /\ pc = "loop"
    /\ main.i >= 1
    /\ disk.writes < main.i
    /\ disk' = [disk EXCEPT !.backlog =
                   [k \in 1..Len(main.remaining_sites) |->
                       <<main.remaining_sites[k].site_id, main.remaining_sites[k].note>>],
                            !.writes = @ + 1]
    /\ pc' = IF main.i > Len(main.original_sites) THEN "done" ELSE pc
    /\ UNCHANGED <<m4d_players, main, ps, token_no, calls, exc, flagsVars, selVars, trVars, lookupVars, serverVars, csvVars>>

\* main: write_missing_sites(MISSING_SITES_FILE, remaining_sites)
WriteMissingSites ==
    /\ pc = "loop"
    /\ main.i > Len(main.original_sites)
    /\ disk' = [disk EXCEPT !.backlog =
                   [k \in 1..Len(main.remaining_sites) |->
                       <<main.remaining_sites[k].site_id, main.remaining_sites[k].note>>],
                            !.writes = @ + 1]
    /\ pc' = "done"
    /\ UNCHANGED <<m4d_players, main, ps, token_no, calls, exc, flagsVars, selVars, trVars, lookupVars, serverVars, csvVars>>

BatchNext ==
    \/ CheckMissingSitesFile
    \/ LoadInputs
    \/ \E given \in BOOLEAN : GetApiCredentials(given)
    \/ \E ok \in Outcomes : StartupToken(ok)
    \/ \E ok \in Outcomes : PrefetchPlayers(ok)
    \/ BeginSite
    \/ \E ok \in Outcomes : SiteToken(ok)
    \/ \E ok \in Outcomes : SiteFetchPlayers(ok)
    \/ SkipPlayer
    \/ \E ok \in Outcomes : PlayerToken(ok)
    \/ \E ok \in Outcomes : FetchPlayer(ok)
    \/ \E ok \in Outcomes : PatchPlayerCity(ok)
    \/ \E ok \in Outcomes : SetPlayerReseller(ok)
    \/ \E ok \in Outcomes : SetPlayerIsp(ok)
    \/ \E ok \in Outcomes : SetPlayerFlags(ok)
    \/ SiteReturn
    \/ WriteMissingSites

IdleDisk ==
    [missing_exists |-> FALSE, csv_exists |-> FALSE, dict_exists |-> FALSE,
     backlog |-> <<>>, writes |-> 0]

\* Startup is over once main holds the pre-fetched player list and enters its loop.
StartupCompleted == main.i >= 1

\* Every site of the loaded backlog has been handed to process_site and returned.
AllSitesProcessed == main.i > Len(main.original_sites)

\* C10: in the batch driver, once startup has completed, no error arising while
\* processing one backlog site (site lookup, translation, token request, player
\* fetch, per-player API call) terminates the run: the run does not end on an
\* exception, and when it ends every backlog site has been processed and the
\* backlog file has been rewritten. Both input files exist throughout.
C10_SiteErrorNeverEndsRun ==
    (StartupCompleted /\ disk.csv_exists /\ disk.dict_exists)
        => /\ pc # "crashed"
           /\ pc = "done" => (AllSitesProcessed /\ disk.writes = 1)

\* The number of GET /v1/players requests issued so far.
PlayerListRequests == Cardinality({k \in 1..Len(calls) : calls[k].op = "players"})

\* C20: in one run of the batch driver the player-list request GET /v1/players is
\* issued exactly once, whatever the number of backlog sites and whatever the list
\* returned (an empty list included): never more than once, and once in a run
\* that reached its end.
C20_PlayerListRequestedOnce ==
    /\ PlayerListRequests <= 1
    /\ pc = "done" => PlayerListRequests = 1

-----------------------------------------------------------------------------
(* SpecDrivers: update_player_city.main (the single-site driver) beside the *)
(* batch driver                                                             *)

\* The site ids typed at the prompt (stripped by prompt_site_id).
PromptedSites == {Ident_12, Ident_13, Ident_14, Ident_15, Ident_99, Ident_3}

\* main: both input files must exist.
UpdateCheckFiles ==
    /\ pc = "update_start"
    /\ IF disk.csv_exists /\ disk.dict_exists
       THEN pc' = "update_prompt" /\ exc' = exc
       ELSE Crash("FileNotFoundError")
    /\ UNCHANGED <<disk, m4d_players, main, ps, token_no, calls, flagsVars, selVars, trVars, lookupVars, serverVars, csvVars>>

\* main from prompt_site_id to the translation: the three lookups raise out of
\* main, a failed translation returns 1.
UpdateLookup(site) ==
    /\ pc = "update_prompt"
    /\ LET city_he == FindSiteField(CsvTable, site, "city")
           reseller_he == FindSiteField(CsvTable, site, "reseller")
           isp_he == FindSiteField(CsvTable, site, "isp")
           found == /\ city_he.outcome = "return"
                    /\ reseller_he.outcome = "return"
                    /\ isp_he.outcome = "return"
           city_en == TranslateCity(city_he.value, BatchDictionaries)
           reseller_en == TranslateReseller(reseller_he.value, BatchDictionaries)
           isp_en == TranslateIsp(isp_he.value, BatchDictionaries)
           translated == /\ city_en.outcome = "return"
                         /\ reseller_en.outcome = "return"
                         /\ isp_en.outcome = "return"
       IN  IF ~found
           THEN /\ Crash("RuntimeError")
                /\ ps' = [NoFrame EXCEPT !.site_id = site]
                /\ main' = main
           ELSE IF ~translated
           THEN /\ pc' = "exit_1" /\ exc' = exc
                /\ ps' = [NoFrame EXCEPT !.site_id = site]
                /\ main' = [main EXCEPT !.dictionaries = BatchDictionaries]
           ELSE /\ pc' = "update_credentials" /\ exc' = exc
                /\ ps' = [NoFrame EXCEPT !.site_id = site,
                                         !.city_en = city_en.value,
                                         !.reseller_en = reseller_en.value,
                                         !.isp_en = isp_en.value]
                /\ main' = [main EXCEPT !.dictionaries = BatchDictionaries]
    /\ UNCHANGED <<disk, m4d_players, token_no, calls, flagsVars, selVars, trVars, lookupVars, serverVars, csvVars>>

\* main: api_key, organization = get_api_credentials()
UpdateCredentials(given) ==
    /\ pc = "update_credentials"
    /\ IF given THEN pc' = "update_token" /\ exc' = exc ELSE Crash("RuntimeError")
    /\ UNCHANGED <<disk, m4d_players, main, ps, token_no, calls, flagsVars, selVars, trVars, lookupVars, serverVars, csvVars>>

\* main: token = request_token(api_key, organization)
UpdateToken(ok) ==
    /\ pc = "update_token"
    /\ calls' = Append(calls, Call("token", NoId, ok))
    /\ IF ok
       THEN token_no' = token_no + 1 /\ pc' = "update_players" /\ exc' = exc
       ELSE token_no' = token_no /\ Crash("HTTPError")
    /\ UNCHANGED <<disk, m4d_players, main, ps, flagsVars, selVars, trVars, lookupVars, serverVars, csvVars>>

\* main: players = fetch_players(token), the selection and the site's context; an
\* empty selection returns 0.
UpdateFetchPlayers(ok) ==
    /\ pc = "update_players"
    /\ calls' = Append(calls, Call("players", NoId, ok))
    /\ IF ~ok
       THEN Crash("HTTPError") /\ ps' = ps
       ELSE IF FilterPlayers(m4d_players, ps.site_id) = <<>>
       THEN pc' = "exit_0" /\ exc' = exc /\ ps' = ps
       ELSE pc' = "update_player" /\ exc' = exc /\ ps' = Selected(ps, m4d_players)
    /\ UNCHANGED <<disk, m4d_players, main, token_no, flagsVars, selVars, trVars, lookupVars, serverVars, csvVars>>

\* A player without id is skipped.
UpdateSkipPlayer ==
    /\ pc = "update_player"
    /\ ps.j <= Len(ps.target_players)
    /\ CurrentPlayer.id = NoId
    /\ ps' = NextPlayer(ps)
    /\ UNCHANGED <<disk, m4d_players, pc, main, token_no, calls, exc, flagsVars, selVars, trVars, lookupVars, serverVars, csvVars>>

\* One step of the try block of a player; when the request raises, the except
\* clause prints the error and the loop passes to the next player.
UpdatePlayerStep(op, ok) ==
    /\ pc = "update_player"
    /\ ps.j <= Len(ps.target_players)
    /\ CurrentPlayer.id # NoId
    /\ PlayerSteps[ps.step] = op
    /\ NoRequest(op) => ok
    /\ calls' = IF NoRequest(op) THEN calls ELSE Append(calls, Call(op, CurrentPlayer.id, ok))
    /\ m4d_attrs' = Applied(op, ok)
    /\ token_no' = IF op = "token" /\ ok THEN token_no + 1 ELSE token_no
    /\ ps' = IF ~ok \/ ps.step = Len(PlayerSteps) THEN NextPlayer(ps)
             ELSE [ps EXCEPT !.step = @ + 1]
    /\ UNCHANGED <<disk, m4d_players, pc, main, exc, flagsVars, selVars, trVars, lookupVars, m4d_before, csvVars>>

UpdatePlayerToken(ok) == UpdatePlayerStep("token", ok)

UpdateFetchPlayer(ok) == UpdatePlayerStep("fetch_player", ok)

UpdatePatchPlayerCity(ok) == UpdatePlayerStep("patch_city", ok)

UpdateSetPlayerReseller(ok) == UpdatePlayerStep("set_reseller", ok)

UpdateSetPlayerIsp(ok) == UpdatePlayerStep("set_isp", ok)

UpdateSetPlayerFlags(ok) == UpdatePlayerStep("set_flags", ok)

\* main: return 0 after the loop over the players.
UpdateReturn ==
    /\ pc = "update_player"
    /\ ps.j > Len(ps.target_players)
    /\ pc' = "exit_0"
    /\ UNCHANGED <<disk, m4d_players, main, ps, token_no, calls, exc, flagsVars, selVars, trVars, lookupVars, serverVars, csvVars>>

UpdateNext ==
    \/ UpdateCheckFiles
    \/ \E site \in PromptedSites : UpdateLookup(site)
    \/ \E given \in BOOLEAN : UpdateCredentials(given)
    \/ \E ok \in Outcomes : UpdateToken(ok)
    \/ \E ok \in Outcomes : UpdateFetchPlayers(ok)
    \/ UpdateSkipPlayer
    \/ \E ok \in Outcomes : UpdatePlayerToken(ok)
    \/ \E ok \in Outcomes : UpdateFetchPlayer(ok)
    \/ \E ok \in Outcomes : UpdatePatchPlayerCity(ok)
    \/ \E ok \in Outcomes : UpdateSetPlayerReseller(ok)
    \/ \E ok \in Outcomes : UpdateSetPlayerIsp(ok)
    \/ \E ok \in Outcomes : UpdateSetPlayerFlags(ok)
    \/ UpdateReturn

DriversNext ==
    \/ BatchNext
    \/ UpdateNext

\* The driver stands in the loop over the matched players of a site.
InPlayerLoop == pc \in {"player", "update_player"}

\* The update sequence of a player starts with its token request.
Started(player_id) == \E k \in 1..Len(calls) :
    /\ calls[k].site = ps.site_id
    /\ calls[k].player_id = player_id
    /\ calls[k].op = "token"

\* Some request of the player's sequence failed.
FailedFor(player_id) == \E k \in 1..Len(calls) :
    /\ calls[k].site = ps.site_id
    /\ calls[k].player_id = player_id
    /\ ~calls[k].ok

\* C11: in the single-site and batch drivers, every matched player that has an id
\* and that the loop has passed got its update sequence started, whatever happened
\* to the earlier players; when the loop ends this is every matched player with id.
C11_EveryPlayerStarted ==
    InPlayerLoop =>
        \A k \in 1..Len(ps.target_players) :
            (k < ps.j /\ ps.target_players[k].id # NoId)
                => Started(ps.target_players[k].id)

\* The loop over site 12 ended; the sequence of player 101 failed and that of the
\* later player 102 was started.
C11_Witness ==
    /\ InPlayerLoop
    /\ ps.j > Len(ps.target_players)
    /\ Len(ps.target_players) = 3
    /\ FailedFor(101)
    /\ Started(102)

\* C12: when a request of a player's update sequence fails, it is the last request
\* issued for that player in that site's processing: the remaining steps are
\* skipped, the failed request is not issued again, and no request follows that
\* could undo the writes that succeeded.
C12_FailedCallIsLast ==
    \A k \in 1..Len(calls) :
        (~calls[k].ok /\ calls[k].player_id # NoId)
            => \A m \in (k + 1)..Len(calls) :
                  ~(calls[m].site = calls[k].site /\ calls[m].player_id = calls[k].player_id)

\* Player 101's city was written, its reseller request failed, and the run went
\* on to the end of the site's loop.
C12_Witness ==
    /\ InPlayerLoop
    /\ ps.j > Len(ps.target_players)
    /\ \E k \in 1..Len(calls) :
          /\ calls[k].player_id = 101 /\ calls[k].op = "patch_city" /\ calls[k].ok
          /\ \E m \in (k + 1)..Len(calls) :
                calls[m].player_id = 101 /\ calls[m].op = "set_reseller" /\ ~calls[m].ok
    /\ Started(102)

\* The run has ended without an exception leaving main.
EndedNormally == pc \in {"done", "exit_0", "exit_1"}

\* C13: in every driver, when the site-record CSV file or the dictionaries file
\* does not exist, the run fails before any network request (token request or
\* player listing) has been issued: no request is ever logged and the run does not
\* end normally.
C13_MissingFileFailsBeforeNetwork ==
    (~disk.csv_exists \/ ~disk.dict_exists)
        => (calls = <<>> /\ ~EndedNormally)

\* What process_site reports for a site, read off the inputs and the requests
\* logged: the note of the first reason that keeps the site unresolved, or the
\* empty note of a resolved site.
ReportedNote(site) ==
    LET Found(column) == FindSiteField(CsvTable, site, column)
    IN  IF \E column \in {"city", "reseller", "isp"} : Found(column).outcome # "return"
        THEN <<"Failed to read CSV data">>
        ELSE IF \/ TranslateCity(Found("city").value, BatchDictionaries).outcome # "return"
                \/ TranslateReseller(Found("reseller").value, BatchDictionaries).outcome # "return"
                \/ TranslateIsp(Found("isp").value, BatchDictionaries).outcome # "return"
        THEN <<"not found in dictionary">>
        ELSE IF \A k \in 1..Len(m4d_players) :
                    /\ ~Contains(Or(m4d_players[k].identifier, <<>>), site)
                    /\ ~Contains(Or(m4d_players[k].name, <<>>), site)
        THEN <<"No players found">>
        ELSE IF \E k \in 1..Len(calls) :
                    calls[k].site = site /\ calls[k].player_id # NoId /\ ~calls[k].ok
        THEN <<"One or more players failed to update">>
        ELSE <<>>

\* The rows the claim expects in the rewritten file, for the rows of the input file:
\* the stripped, de-duplicated sites that stayed unresolved, in order, each with
\* the new note, or the previous one when the new one is empty.
RECURSIVE ExpectedBacklog(_, _)
ExpectedBacklog(rows, seen) ==
    IF rows = <<>> THEN <<>>
    ELSE LET site == Strip(Head(rows)[1])
             rest == ExpectedBacklog(Tail(rows), seen \cup {site})
         IN  IF site = <<>> \/ site \in seen \/ ReportedNote(site) = <<>>
             THEN rest
             ELSE << <<site, ReportedNote(site)>> >> \o rest

\* C14: when a batch run reaches its end, the rewritten backlog file holds exactly
\* the de-duplicated sites of the input backlog for which process_site returned
\* unresolved, in their original order, each with its note; no resolved site and
\* no site absent from the input appears.
C14_RewrittenBacklog ==
    [][(pc = "loop" /\ pc' = "done")
          => /\ disk'.backlog = ExpectedBacklog(disk.backlog, {})
             /\ \A k \in 1..Len(disk'.backlog) : disk'.backlog[k][2] # <<>>]_vars

\* A finished run whose input held site 12 twice and site 13: one of the two sites
\* was resolved and dropped, the other one kept with a note.
C14_Witness ==
    /\ pc = "done"
    /\ Len(main.original_sites) = 2
    /\ Len(disk.backlog) = 1
    /\ \E k \in 1..Len(calls) : ~calls[k].ok

\* The selection for a site is empty, and nothing else keeps the site unresolved.
NothingToDo(site) == ReportedNote(site) = <<"No players found">>

\* C16: when the player selection for a site is empty, the site's processing ends
\* as a non-failure "nothing to do" outcome: no per-player request is issued for
\* the site, the single-site driver leaves its selection step with exit code 0,
\* and the batch driver does not keep the site among the unresolved sites.
C16_EmptySelectionIsNoFailure ==
    /\ \A k \in 1..Len(calls) :
          calls[k].player_id # NoId => FilterPlayers(m4d_players, calls[k].site) # <<>>
    /\ (pc = "update_player" => FilterPlayers(m4d_players, ps.site_id) # <<>>)
    /\ (pc = "exit_0" /\ Len(calls) = 2 /\ calls[2].ok => NothingToDo(ps.site_id))
    /\ \A k \in 1..Len(main.remaining_sites) :
          ~NothingToDo(main.remaining_sites[k].site_id)

\* The requests that change a player in the vendor system.
WriteOps == {"patch_city", "set_reseller", "set_isp", "set_flags"}

\* C21: every write request (city PATCH, reseller, ISP and streaming-flag upsert)
\* is immediately preceded by its own successful token request, with no other
\* read or write request in between.
C21_WriteHasFreshToken ==
    \A k \in 1..Len(calls) :
        calls[k].op \in WriteOps
            => /\ k > 1
               /\ calls[k - 1].op = "token"
               /\ calls[k - 1].ok

\* The code a site's label translates to, read off the CSV and the dictionaries.
SiteCode(site, column) ==
    LET he == FindSiteField(CsvTable, site, column).value
    IN  IF column = "reseller" THEN TranslateReseller(he, BatchDictionaries).value
        ELSE IF column = "isp" THEN TranslateIsp(he, BatchDictionaries).value
        ELSE TranslateCity(he, BatchDictionaries).value

\* The requests the claim expects for a player of a site, tokens aside: the fixed
\* order, less the upsert of a reseller or ISP whose code is empty.
ExpectedCalls(site) ==
    SelectSeq(<<"fetch_player", "patch_city", "set_reseller", "set_isp", "set_flags", "fetch_player">>,
              LAMBDA op : /\ ~(op = "set_reseller" /\ SiteCode(site, "reseller") = <<>>)
                          /\ ~(op = "set_isp" /\ SiteCode(site, "isp") = <<>>))

\* The requests logged for a player in the processing of a site, tokens aside.
PlayerCalls(site, player_id) ==
    SelectSeq(calls, LAMBDA c : c.site = site /\ c.player_id = player_id /\ c.op # "token")

ResolvedSites ==
    {main.original_sites[k].site_id : k \in 1..(main.i - 1)}
        \ {main.remaining_sites[k].site_id : k \in 1..Len(main.remaining_sites)}

\* The attribute was written for the player by a successful request issued for
\* the site.
WrittenFor(site, player, op) ==
    \E k \in 1..Len(calls) :
       /\ calls[k].site = site
       /\ calls[k].player_id = player.id
       /\ calls[k].op = op
       /\ calls[k].ok

\* C25: process_site reports a site as resolved only if every player matched to
\* the site had its city, reseller, ISP and streaming-mute flags written by a
\* successful API call during that invocation.
C25_ResolvedMeansAllWritten ==
    \A site \in ResolvedSites :
       LET targets == FilterPlayers(m4d_players, site)
       IN  \A j \in 1..Len(targets) : \A op \in WriteOps :
              /\ targets[j].id # NoId
              /\ WrittenFor(site, targets[j], op)

\* C26: the batch driver writes the backlog file at most once per run, and only
\* after every backlog site has been processed; a run that an exception ends
\* earlier leaves the file as it was.
C26_BacklogWrittenOnceAtEnd ==
    [][/\ disk' # disk =>
            /\ pc = "loop" /\ AllSitesProcessed
            /\ disk.writes = 0 /\ disk'.writes = 1
            /\ pc' = "done"
       /\ pc' = "crashed" => (disk' = disk /\ disk.writes = 0)]_vars

\* The run ended on an exception after a first site had been resolved: the site
\* is still in the file.
C26_Witness ==
    /\ pc = "crashed"
    /\ main.i = 2
    /\ main.remaining_sites = <<>>
    /\ disk.writes = 0
    /\ Len(disk.backlog) = 2

\* C27: within one batch run each player receives attribute writes on behalf of
\* at most one backlog site id.
C27_OneSitePerPlayer ==
    \A k, m \in 1..Len(calls) :
       (/\ calls[k].op \in WriteOps /\ calls[m].op \in WriteOps
        /\ calls[k].ok /\ calls[m].ok
        /\ calls[k].player_id = calls[m].player_id)
           => calls[k].site = calls[m].site

-----------------------------------------------------------------------------
(* SpecRerun: update_player_city.main run twice in succession *)

\* The script is started again after a run that returned 0 without a failed
\* request; the CSV, the dictionaries and the player list are as before.
RunAgain ==
    /\ pc = "exit_0"
    /\ m4d_before = <<>>
    /\ Failures = 0
    /\ m4d_before' = m4d_attrs
    /\ pc' = "update_start"
    /\ ps' = NoFrame
    /\ main' = NoMain
    /\ UNCHANGED <<disk, m4d_players, m4d_attrs, token_no, calls, exc, flagsVars, selVars, trVars, lookupVars, csvVars>>

RerunNext ==
    \/ UpdateNext
    \/ RunAgain

\* The second run has returned 0, both runs were for the same site and no request
\* of either failed.
SecondRunDone ==
    /\ pc = "exit_0"
    /\ m4d_before # <<>>
    /\ Failures = 0
    /\ \A k \in 1..Len(calls) : calls[k].site = ps.site_id

\* C28: the single-site update is idempotent: after a second run for the same
\* site, with the CSV, the dictionaries and the player list unchanged and no API
\* failure, the city, M4DS_Reseller, M4DS_ISP and the four streaming-mute
\* variables of each matched player equal their values after the first run.
C28_SecondRunChangesNothing ==
    SecondRunDone =>
       LET targets == FilterPlayers(m4d_players, ps.site_id)
       IN  \A j \in 1..Len(targets) :
              targets[j].id # NoId => m4d_attrs[targets[j].id] = m4d_before[targets[j].id]

\* Both runs wrote the city, the reseller, the ISP and a set streaming flag of
\* player 101 of site 12, which held other values before the first run.
C28_Witness ==
    /\ SecondRunDone
    /\ ps.site_id = Ident_12
    /\ m4d_before[101] = Attrs(<<"X">>, <<"Y">>, <<"Z">>, FramePayload(ps, ps.target_players[1]))
    /\ \E n \in StreamingNameSet : m4d_before[101].flags[n] = "true"
    /\ Cardinality({k \in 1..Len(calls) : calls[k].op = "set_flags" /\ calls[k].player_id = 101}) = 2

-----------------------------------------------------------------------------
(* SpecLookup: the find_site_* functions of update_player_city and of        *)
(* validate_and_correct_players                                             *)

MaxRows == 3

\* A data row of the site-record CSV with the same cell in every looked-up column.
LookupRow(site, cell) ==
    [site |-> site, city |-> cell, reseller |-> cell, isp |-> cell, sector |-> cell]

LookupRows ==
    { LookupRow(Ident_12, <<" ">>),
      LookupRow(Ident_12, <<"c">>),
      LookupRow(Ident_12, <<"a", NBSP>>),
      LookupRow(<<" ">> \o Ident_12, <<"b">>),
      LookupRow(Ident_13, <<"a">>) }

LookupSites == {Ident_12, Ident_13}

\* The dictionaries a lookup of the validator may be handed.
LookupDicts ==
    { <<>>,
      << [key |-> <<"a">>, value |-> <<"X">>] >>,
      << [key |-> <<NBSP, "c">>, value |-> <<"Y">>] >> }

LookupDictNames == {"cities_dictionary", "reseller_dictionary", "sector_dictionary"}

\* set(key.replace(nbsp, " ").strip() for key in dictionary.keys())
NormalizedKeys(d) == {Normalize(d[k].key) : k \in 1..Len(d)}

\* The loop of the validator's find_site_*: the non-empty values of the rows of the
\* site are collected until one of them is a dictionary key.
RECURSIVE ValidateFindLoop(_, _, _, _, _)
ValidateFindLoop(rows, site, column, keys, found) ==
    IF rows = <<>> THEN [found |-> found, dictionary_match |-> None]
    ELSE LET value == Strip(ReplaceNbsp(Head(rows)[column]))
         IN  IF Strip(Head(rows).site) = site /\ value # <<>>
             THEN IF value \in keys
                  THEN [found |-> Append(found, value), dictionary_match |-> value]
                  ELSE ValidateFindLoop(Tail(rows), site, column, keys, Append(found, value))
             ELSE ValidateFindLoop(Tail(rows), site, column, keys, found)

\* find_site_city / find_site_reseller / find_site_sector of the validator.
ValidateFindSiteField(rows, site, column, d) ==
    LET r == ValidateFindLoop(rows, site, column, NormalizedKeys(d), <<>>)
    IN  IF Truthy(r.dictionary_match) THEN Return(r.dictionary_match)
        ELSE IF r.found # <<>> THEN Return(r.found[1])
        ELSE Return(None)

LookupCall(name, result) ==
    /\ lk_call = ""
    /\ lk_call' = name
    /\ lk_result' = result
    /\ UNCHANGED <<csv_rows, lk_site, lk_dictionaries, flagsVars, selVars, trVars, batchVars, serverVars, csvVars>>

FindSiteCityCall ==
    LookupCall("find_site_city", FindSiteField(csv_rows, lk_site, "city"))

FindSiteResellerCall ==
    LookupCall("find_site_reseller", FindSiteField(csv_rows, lk_site, "reseller"))

FindSiteIspCall ==
    LookupCall("find_site_isp", FindSiteField(csv_rows, lk_site, "isp"))

ValidateFindSiteCityCall ==
    LookupCall("validate.find_site_city",
               ValidateFindSiteField(csv_rows, lk_site, "city", lk_dictionaries.cities_dictionary))

ValidateFindSiteResellerCall ==
    LookupCall("validate.find_site_reseller",
               ValidateFindSiteField(csv_rows, lk_site, "reseller", lk_dictionaries.reseller_dictionary))

ValidateFindSiteSectorCall ==
    LookupCall("validate.find_site_sector",
               ValidateFindSiteField(csv_rows, lk_site, "sector", lk_dictionaries.sector_dictionary))

LookupNext ==
    \/ FindSiteCityCall
    \/ FindSiteResellerCall
    \/ FindSiteIspCall
    \/ ValidateFindSiteCityCall
    \/ ValidateFindSiteResellerCall
    \/ ValidateFindSiteSectorCall

\* The call was made to a lookup that is handed the dictionaries.
WithDictionary ==
    lk_call \in {"validate.find_site_city", "validate.find_site_reseller", "validate.find_site_sector"}

\* The column and the dictionary the called lookup reads.
LookupColumn ==
    CASE lk_call \in {"find_site_city", "validate.find_site_city"} -> "city"
      [] lk_call \in {"find_site_reseller", "validate.find_site_reseller"} -> "reseller"
      [] lk_call = "find_site_isp" -> "isp"
      [] OTHER -> "sector"

LookupKeys ==
    IF ~WithDictionary THEN {}
    ELSE NormalizedKeys(lk_dictionaries[
            CASE LookupColumn = "city" -> "cities_dictionary"
              [] LookupColumn = "reseller" -> "reseller_dictionary"
              [] OTHER -> "sector_dictionary"])

\* The normalized values of the rows that match the site, in file order; a row
\* matches as the called function compares it (the validator strips the cell).
MatchingValues ==
    LET matches(row) == IF WithDictionary THEN Strip(row.site) = lk_site
                        ELSE row.site = lk_site
        hits == SelectSeq(csv_rows, matches)
    IN  [k \in 1..Len(hits) |-> Strip(ReplaceNbsp(hits[k][LookupColumn]))]

\* The first value of a sequence that satisfies a test (the sequence has one).
FirstSuch(values, Test(_)) == SelectSeq(values, Test)[1]

\* C15: when several rows match the site, the lookup returns the first non-empty
\* normalized value among them, unless a dictionary is supplied and some matching
\* row's value is a dictionary key, in which case the first such value is
\* returned; a blank value in an earlier matching row does not make the lookup
\* fail when a later matching row has a value.
C15_FirstNonEmptyValue ==
    lk_call # "" =>
        LET NonEmpty(v) == v # <<>>
            IsKey(v) == v # <<>> /\ v \in LookupKeys
        IN  IF \E k \in 1..Len(MatchingValues) : IsKey(MatchingValues[k])
            THEN lk_result = Return(FirstSuch(MatchingValues, IsKey))
            ELSE IF \E k \in 1..Len(MatchingValues) : NonEmpty(MatchingValues[k])
            THEN lk_result = Return(FirstSuch(MatchingValues, NonEmpty))
            ELSE lk_result.outcome # "return" \/ lk_result.value = None

-----------------------------------------------------------------------------
(* SpecAudit: audit_missing_attributes.main and audit_site *)

AllFalseFlags == [n \in StreamingNameSet |-> "false"]

CompleteAttrs == Attrs(<<"X">>, <<"Y">>, <<"Z">>, AllFalseFlags)

AttrPool ==
    { CompleteAttrs,
      Attrs(<<>>, <<"Y">>, <<"Z">>, AllFalseFlags),
      Attrs(<<"X">>, <<"Y">>, None, AllFalseFlags),
      Attrs(<<"X">>, <<"Y">>, <<"Z">>, [AllFalseFlags EXCEPT ![Triple] = "None"]),
      Attrs(<<"X">>, <<"Y">>, <<"Z">>, [AllFalseFlags EXCEPT ![VerticalHot] = ""]) }

\* The site cells of the data rows of the site-record CSV, in file order.
AuditRows == << Ident_12, Ident_13, <<" ">> \o Ident_12, <<" ">>, Ident_3 >>

\* player_has_missing_attributes(player)
PlayerHasMissingAttributes(player) ==
    IF ~Truthy(player.city) THEN TRUE
    ELSE IF ~Truthy(player.reseller) \/ ~Truthy(player.isp) THEN TRUE
    ELSE \E n \in StreamingNameSet : player.flags[n] = "None" \/ player.flags[n] = ""

NoAudit ==
    [rows |-> <<>>, players_cache |-> <<>>, i |-> 0, seen_sites |-> {},
     sites_with_missing |-> <<>>, returned |-> <<>>]

\* main: the CSV file must exist.
AuditCheckCsv ==
    /\ pc = "audit_start"
    /\ IF disk.csv_exists
       THEN pc' = "audit_credentials" /\ exc' = exc
       ELSE Crash("FileNotFoundError")
    /\ UNCHANGED <<disk, m4d_players, main, ps, token_no, calls, flagsVars, selVars, trVars, lookupVars, serverVars, csvVars>>

\* main: api_key, organization = get_api_credentials()
AuditCredentials(given) ==
    /\ pc = "audit_credentials"
    /\ IF given THEN pc' = "audit_token" /\ exc' = exc ELSE Crash("RuntimeError")
    /\ UNCHANGED <<disk, m4d_players, main, ps, token_no, calls, flagsVars, selVars, trVars, lookupVars, serverVars, csvVars>>

\* main: token = request_token(api_key, organization)
AuditToken(ok) ==
    /\ pc = "audit_token"
    /\ calls' = Append(calls, Call("token", NoId, ok))
    /\ IF ok
       THEN token_no' = token_no + 1 /\ pc' = "audit_players" /\ exc' = exc
       ELSE token_no' = token_no /\ Crash("HTTPError")
    /\ UNCHANGED <<disk, m4d_players, main, ps, flagsVars, selVars, trVars, lookupVars, serverVars, csvVars>>

\* main: players_cache = fetch_players(token); the rows of the CSV are then read.
AuditFetchPlayers(ok) ==
    /\ pc = "audit_players"
    /\ calls' = Append(calls, Call("players", NoId, ok))
    /\ IF ok
       THEN /\ main' = [main EXCEPT !.players_cache = m4d_players, !.i = 1]
            /\ pc' = "audit_rows" /\ exc' = exc
       ELSE /\ main' = main
            /\ Crash("HTTPError")
    /\ UNCHANGED <<disk, m4d_players, ps, token_no, flagsVars, selVars, trVars, lookupVars, serverVars, csvVars>>

\* main's loop over the rows: a blank site id and a site id seen before are passed
\* over; any other is added to seen_sites and handed to audit_site.
AuditNextRow ==
    /\ pc = "audit_rows"
    /\ main.i <= Len(main.rows)
    /\ LET site == Strip(main.rows[main.i])
       IN  IF site = <<>> \/ site \in main.seen_sites
           THEN /\ main' = [main EXCEPT !.i = @ + 1]
                /\ UNCHANGED <<pc, ps>>
           ELSE /\ main' = [main EXCEPT !.seen_sites = @ \cup {site}]
                /\ ps' = [NoFrame EXCEPT !.site_id = site]
                /\ pc' = "audit_site"
    /\ UNCHANGED <<disk, m4d_players, token_no, calls, exc, flagsVars, selVars, trVars, lookupVars, serverVars, csvVars>>

\* audit_site returns result; main appends the site to sites_with_missing when it
\* is True, and passes to the next row.
AuditSiteReturns(result) ==
    [main EXCEPT !.i = @ + 1,
                 !.returned = Append(@, [site_id |-> ps.site_id, result |-> result]),
                 !.sites_with_missing = IF result THEN Append(@, ps.site_id) ELSE @]

\* audit_site: token = request_token(...), outside any try, then
\* filter_players_by_site; without a matching player it returns False.
AuditSiteToken(ok) ==
    /\ pc = "audit_site"
    /\ calls' = Append(calls, Call("token", NoId, ok))
    /\ IF ~ok
       THEN /\ Crash("HTTPError")
            /\ UNCHANGED <<main, ps, token_no>>
       ELSE /\ token_no' = token_no + 1
            /\ exc' = exc
            /\ LET targets == FilterPlayersBySite(main.players_cache, ps.site_id)
               IN  IF targets = <<>>
                   THEN /\ main' = AuditSiteReturns(FALSE)
                        /\ ps' = ps
                        /\ pc' = "audit_rows"
                   ELSE /\ main' = main
                        /\ ps' = [ps EXCEPT !.target_players = targets, !.j = 1, !.step = 1]
                        /\ pc' = "audit_player"
    /\ UNCHANGED <<disk, m4d_players, flagsVars, selVars, trVars, lookupVars, serverVars, csvVars>>

\* audit_site: a player without id is skipped.
AuditSkipPlayer ==
    /\ pc = "audit_player"
    /\ ps.j <= Len(ps.target_players)
    /\ CurrentPlayer.id = NoId
    /\ ps' = NextPlayer(ps)
    /\ UNCHANGED <<disk, m4d_players, pc, main, token_no, calls, exc, flagsVars, selVars, trVars, lookupVars, serverVars, csvVars>>

\* audit_site: token = request_token(...) inside the try block of a player; the
\* except clause warns and the loop passes to the next player.
AuditPlayerToken(ok) ==
    /\ pc = "audit_player"
    /\ ps.j <= Len(ps.target_players)
    /\ CurrentPlayer.id # NoId
    /\ ps.step = 1
    /\ calls' = Append(calls, Call("token", CurrentPlayer.id, ok))
    /\ token_no' = IF ok THEN token_no + 1 ELSE token_no
    /\ ps' = IF ok THEN [ps EXCEPT !.step = 2] ELSE NextPlayer(ps)
    /\ UNCHANGED <<disk, m4d_players, pc, main, exc, flagsVars, selVars, trVars, lookupVars, serverVars, csvVars>>

\* audit_site: full_player = fetch_player(token, player_id); with a missing
\* attribute audit_site returns True, otherwise (and when the request raises) the
\* loop passes to the next player.
AuditFetchPlayer(ok) ==
    /\ pc = "audit_player"
    /\ ps.j <= Len(ps.target_players)
    /\ CurrentPlayer.id # NoId
    /\ ps.step = 2
    /\ calls' = Append(calls, Call("fetch_player", CurrentPlayer.id, ok))
    /\ IF ok /\ PlayerHasMissingAttributes(m4d_attrs[CurrentPlayer.id])
       THEN /\ main' = AuditSiteReturns(TRUE)
            /\ ps' = ps
            /\ pc' = "audit_rows"
       ELSE /\ main' = main
            /\ ps' = NextPlayer(ps)
            /\ pc' = pc
    /\ UNCHANGED <<disk, m4d_players, token_no, exc, flagsVars, selVars, trVars, lookupVars, serverVars, csvVars>>

\* audit_site: the loop over the players ended, return False.
AuditSiteFalse ==
    /\ pc = "audit_player"
    /\ ps.j > Len(ps.target_players)
    /\ main' = AuditSiteReturns(FALSE)
    /\ pc' = "audit_rows"
    /\ UNCHANGED <<disk, m4d_players, ps, token_no, calls, exc, flagsVars, selVars, trVars, lookupVars, serverVars, csvVars>>

\* main: the output CSV is written, one row per site of sites_with_missing.
AuditWriteOutput ==
    /\ pc = "audit_rows"
    /\ main.i > Len(main.rows)
    /\ disk' = [disk EXCEPT !.output = main.sites_with_missing, !.writes = @ + 1]
    /\ pc' = "done"
    /\ UNCHANGED <<m4d_players, main, ps, token_no, calls, exc, flagsVars, selVars, trVars, lookupVars, serverVars, csvVars>>

AuditNext ==
    \/ AuditCheckCsv
    \/ \E given \in BOOLEAN : AuditCredentials(given)
    \/ \E ok \in Outcomes : AuditToken(ok)
    \/ \E ok \in Outcomes : AuditFetchPlayers(ok)
    \/ AuditNextRow
    \/ \E ok \in Outcomes : AuditSiteToken(ok)
    \/ AuditSkipPlayer
    \/ \E ok \in Outcomes : AuditPlayerToken(ok)
    \/ \E ok \in Outcomes : AuditFetchPlayer(ok)
    \/ AuditSiteFalse
    \/ AuditWriteOutput

\* At least one player matched to the site has a missing attribute in the vendor
\* system.
SiteHasMissing(site) ==
    LET targets == FilterPlayersBySite(m4d_players, site)
    IN  \E k \in 1..Len(targets) :
           /\ targets[k].id # NoId
           /\ PlayerHasMissingAttributes(m4d_attrs[targets[k].id])

\* The number of rows of the output that name the site.
Listed(site) ==
    Cardinality({k \in 1..Len(disk.output) : disk.output[k] = site})

\* C23: audit_site returns True for a site if and only if at least one player
\* matched to the site has a missing attribute (empty city, empty M4DS_Reseller or
\* M4DS_ISP, one of the four streaming-mute variables absent or empty), and the
\* output of the audit driver lists exactly those sites, each at most once.
C23_TrueIffMissingAttribute ==
    /\ \A k \in 1..Len(main.returned) :
          main.returned[k].result <=> SiteHasMissing(main.returned[k].site_id)
    /\ pc = "done" =>
          \A site \in main.seen_sites :
             Listed(site) = IF SiteHasMissing(site) THEN 1 ELSE 0

-----------------------------------------------------------------------------
(* SpecValidate: validate_and_correct_players.validate_and_correct_player *)

Digits == {"0", "1", "2", "3", "4", "5", "6", "7", "8", "9"}

\* \w over the characters of the model: letters, digits and the underscore are
\* word characters; whitespace and the hyphen are not.
IsWord(c) == c \notin (Whitespace \cup {"-"})

\* Six digits start at position i of s.
SixDigitsAt(s, i) == i + 5 <= Len(s) /\ \A k \in i..(i + 5) : s[k] \in Digits

\* extract_site_number(identifier): re.match(r"(\d{6})", identifier.strip()), then
\* re.search(r"\b(\d{6})\b", identifier).
ExtractSiteNumber(identifier) ==
    IF ~Truthy(identifier) THEN None
    ELSE IF SixDigitsAt(Strip(identifier), 1) THEN SubSeq(Strip(identifier), 1, 6)
    ELSE LET starts == {i \in 1..Len(identifier) :
                           /\ SixDigitsAt(identifier, i)
                           /\ (i = 1 \/ ~IsWord(identifier[i - 1]))
                           /\ (i + 5 = Len(identifier) \/ ~IsWord(identifier[i + 6]))}
             first == CHOOSE i \in starts : \A j \in starts : i <= j
         IN  IF starts = {} THEN None ELSE SubSeq(identifier, first, first + 5)

Site_10 == <<"2", "0", "0", "0", "1", "0">>
Site_11 == <<"2", "0", "0", "0", "1", "1">>
Site_12 == <<"2", "0", "0", "0", "1", "2">>
Site_13 == <<"2", "0", "0", "0", "1", "3">>
Site_99 == <<"2", "0", "0", "0", "9", "9">>

\* A data row of the site-record CSV as the validator reads it.
ValidateRow(site, city, reseller, sector) ==
    [site |-> site, city |-> city, reseller |-> reseller, sector |-> sector]

\* Site 10 resolves in every column; the city of site 11 is in no dictionary and
\* its sector is blank; the reseller of site 12 is blank and its sector is in no
\* dictionary; the city and the sector of site 13 translate to an empty code.
ValidateCsv ==
    << ValidateRow(Site_10, <<"a">>, <<"b">>, <<"s">>),
       ValidateRow(Site_11, <<"c">>, <<"b">>, <<" ">>),
       ValidateRow(Site_12, <<"a">>, <<" ">>, <<"u">>),
       ValidateRow(Site_13, <<"d">>, <<"b">>, <<"t">>) >>

ValidateDictionaries ==
    [cities_dictionary   |-> << [key |-> <<"a">>, value |-> <<"X">>],
                                [key |-> <<"d">>, value |-> <<>>] >>,
     reseller_dictionary |-> << [key |-> <<"b">>, value |-> <<"Y">>] >>,
     sector_dictionary   |-> << [key |-> <<"s">>, value |-> <<"S">>],
                                [key |-> <<"t">>, value |-> <<>>] >>]

\* get_all_dictionary_values(dictionaries, dict_key)
GetAllDictionaryValues(dicts, dict_key) ==
    LET d == Get(dicts, dict_key)
    IN  {d[k].value : k \in {i \in 1..Len(d) : Truthy(d[i].value)}}

\* The players handed to validate_and_correct_player.
ValidatePlayers ==
    { Player(201, Site_10 \o Suffix_H, None),
      Player(202, Site_11, None),
      Player(203, Site_12 \o <<"_", "T">>, None),
      Player(204, <<"A", "B", "C">>, None),
      Player(205, Site_99, None),
      Player(206, <<"X", "-">> \o Site_10, None),
      Player(207, <<"X">> \o Site_10, None),
      Player(208, Site_13, None),
      Player(NoId, Site_10, None) }

\* What GET /v1/players/{id} returns of a player, as far as the validator reads it.
ValidateAttrs ==
    [city : {<<"X">>, <<"Q">>, None},
     reseller : {<<"Y">>, <<>>},
     sector : {<<"S">>, GENERAL, None}]

\* result as validate_and_correct_player initializes it.
NewResult ==
    [needs_correction |-> FALSE, city_invalid |-> FALSE, reseller_invalid |-> FALSE,
     sector_invalid |-> FALSE, site_number |-> None, updated |-> FALSE,
     error |-> None, city_changed |-> FALSE, reseller_changed |-> FALSE,
     sector_changed |-> FALSE]

ValidateFrame(player) ==
    [site_id |-> None, player |-> player, result |-> NewResult,
     city_en |-> None, reseller_en |-> None, sector_en |-> None, step |-> 0]

\* The validation of the fetched values: city and reseller against the values of
\* their dictionaries, the sector against the code expected for the site.
Judged(details, identifier, dicts) ==
    LET city_valid == /\ Truthy(details.city)
                      /\ details.city \in GetAllDictionaryValues(dicts, "cities_dictionary")
        reseller_valid == /\ Truthy(details.reseller)
                          /\ details.reseller \in GetAllDictionaryValues(dicts, "reseller_dictionary")
        site_number == ExtractSiteNumber(identifier)
        sector_he == ValidateFindSiteField(ValidateCsv, site_number, "sector",
                                           Get(dicts, "sector_dictionary")).value
        expected_sector_en == IF ~Truthy(site_number) THEN None
                              ELSE IF Truthy(sector_he)
                                   THEN TranslateSector(sector_he, dicts).value
                                   ELSE GENERAL
        sector_invalid == Truthy(site_number) /\ details.sector # expected_sector_en
    IN  [city_invalid |-> ~city_valid, reseller_invalid |-> ~reseller_valid,
         sector_invalid |-> sector_invalid, site_number |-> site_number,
         expected_sector_en |-> expected_sector_en,
         needs_correction |-> ~city_valid \/ ~reseller_valid \/ sector_invalid]

\* The lookups and translations of the invalid attributes.
Resolved(judged, dicts) ==
    LET city_he == IF judged.city_invalid
                   THEN ValidateFindSiteField(ValidateCsv, judged.site_number, "city",
                                              Get(dicts, "cities_dictionary")).value
                   ELSE None
        reseller_he == IF judged.reseller_invalid
                       THEN ValidateFindSiteField(ValidateCsv, judged.site_number, "reseller",
                                                  Get(dicts, "reseller_dictionary")).value
                       ELSE None
    IN  [city_he |-> city_he, reseller_he |-> reseller_he,
         city_en |-> IF Truthy(city_he)
                     THEN ValidateTranslateCity(city_he, dicts).value ELSE None,
         reseller_en |-> IF Truthy(reseller_he)
                         THEN ValidateTranslateReseller(reseller_he, dicts).value ELSE None,
         sector_en |-> IF judged.sector_invalid THEN judged.expected_sector_en ELSE None]

\* ResolutionError that lets every correction through to the update.
ResolutionError_Never(judged, r) ==
    None

\* The error with which validate_and_correct_player returns before its update,
\* None when it goes on to the update.
ResolutionError(judged, r) ==
    IF ~Truthy(judged.site_number) THEN <<"Could not extract site number from identifier">>
    ELSE IF ~Truthy(r.city_he) /\ judged.city_invalid THEN <<"not found in CSV for city">>
    ELSE IF ~Truthy(r.reseller_he) /\ judged.reseller_invalid
         THEN <<"not found in CSV for reseller">>
    ELSE IF Truthy(r.city_he) /\ ~Truthy(r.city_en) THEN <<"not found in cities_dictionary">>
    ELSE IF Truthy(r.reseller_he) /\ ~Truthy(r.reseller_en)
         THEN <<"not found in reseller_dictionary">>
    ELSE None

\* ValidateWriteSteps with the three attributes written whenever one is invalid.
ValidateWriteSteps_AllThree(frame) ==
    <<"token", "patch_city", "token", "set_reseller", "token", "set_sector">>

\* The requests of the update, in program order.
ValidateWriteSteps(frame) ==
    <<"token">>
    \o (IF frame.result.city_invalid /\ Truthy(frame.city_en)
        THEN <<"patch_city">> ELSE <<>>)
    \o (IF frame.result.reseller_invalid /\ Truthy(frame.reseller_en)
        THEN <<"token", "set_reseller">> ELSE <<>>)
    \o (IF frame.result.sector_invalid /\ Truthy(frame.sector_en)
        THEN <<"token", "set_sector">> ELSE <<>>)

\* validate_and_correct_player returns at once for a player without id.
ValidateBegin ==
    /\ pc = "validate_start"
    /\ IF ps.player.id = NoId
       THEN /\ ps' = [ps EXCEPT !.result.error = <<"No player ID">>]
            /\ pc' = "validate_done"
       ELSE /\ ps' = ps
            /\ pc' = "validate_token"
    /\ UNCHANGED <<disk, m4d_players, main, token_no, calls, exc, flagsVars, selVars, trVars, lookupVars, serverVars, csvVars>>

\* token = request_token(api_key, organization); the outer except clause records
\* the error of a request that raises.
ValidateToken(ok) ==
    /\ pc = "validate_token"
    /\ calls' = Append(calls, Call("token", ps.player.id, ok))
    /\ token_no' = IF ok THEN token_no + 1 ELSE token_no
    /\ IF ok
       THEN ps' = ps /\ pc' = "validate_fetch"
       ELSE /\ ps' = [ps EXCEPT !.result.error = <<"HTTPError">>]
            /\ pc' = "validate_done"
    /\ UNCHANGED <<disk, m4d_players, main, exc, flagsVars, selVars, trVars, lookupVars, serverVars, csvVars>>

\* player_details = fetch_player(token, player_id), the validation of the fetched
\* values and, for a player that needs correction, the lookups and translations.
ValidateFetchPlayer(ok) ==
    /\ pc = "validate_fetch"
    /\ calls' = Append(calls, Call("fetch_player", ps.player.id, ok))
    /\ IF ~ok
       THEN /\ ps' = [ps EXCEPT !.result.error = <<"HTTPError">>]
            /\ pc' = "validate_done"
       ELSE LET judged == Judged(m4d_attrs[ps.player.id],
                                 Strip(Or(ps.player.identifier, Or(ps.player.name, <<>>))),
                                 ValidateDictionaries)
                r == Resolved(judged, ValidateDictionaries)
                error == ResolutionError(judged, r)
                result == [ps.result EXCEPT !.city_invalid = judged.city_invalid,
                                            !.reseller_invalid = judged.reseller_invalid,
                                            !.sector_invalid = judged.sector_invalid,
                                            !.needs_correction = judged.needs_correction,
                                            !.site_number = judged.site_number]
            IN  IF ~judged.needs_correction
                THEN /\ ps' = [ps EXCEPT !.result = result, !.site_id = judged.site_number]
                     /\ pc' = "validate_done"
                ELSE IF error # None
                THEN /\ ps' = [ps EXCEPT !.result = [result EXCEPT !.error = error],
                                         !.site_id = judged.site_number]
                     /\ pc' = "validate_done"
                ELSE /\ ps' = [ps EXCEPT !.result = result, !.site_id = judged.site_number,
                                         !.city_en = r.city_en,
                                         !.reseller_en = r.reseller_en,
                                         !.sector_en = r.sector_en, !.step = 1]
                     /\ pc' = "validate_update"
    /\ UNCHANGED <<disk, m4d_players, main, token_no, exc, flagsVars, selVars, trVars, lookupVars, serverVars, csvVars>>

\* The vendor system after a successful write request.
Written(attrs, op, frame) ==
    CASE op = "patch_city"   -> [attrs EXCEPT !.city = frame.city_en]
      [] op = "set_reseller" -> [attrs EXCEPT !.reseller = frame.reseller_en]
      [] op = "set_sector"   -> [attrs EXCEPT !.sector = frame.sector_en]
      [] OTHER               -> attrs

\* result after a successful request of the update.
Changed(result, op) ==
    CASE op = "patch_city"   -> [result EXCEPT !.city_changed = TRUE]
      [] op = "set_reseller" -> [result EXCEPT !.reseller_changed = TRUE]
      [] op = "set_sector"   -> [result EXCEPT !.sector_changed = TRUE]
      [] OTHER               -> result

\* One request of the update's try block; a request that raises sets the error
\* and returns, the last one that succeeds is followed by updated = True.
ValidateUpdateStep(op, ok) ==
    /\ pc = "validate_update"
    /\ ps.step <= Len(ValidateWriteSteps(ps))
    /\ ValidateWriteSteps(ps)[ps.step] = op
    /\ calls' = Append(calls, Call(op, ps.player.id, ok))
    /\ token_no' = IF op = "token" /\ ok THEN token_no + 1 ELSE token_no
    /\ m4d_attrs' = IF ok THEN [m4d_attrs EXCEPT ![ps.player.id] = Written(@, op, ps)]
                    ELSE m4d_attrs
    /\ IF ~ok
       THEN /\ ps' = [ps EXCEPT !.result.error = <<"API update failed">>]
            /\ pc' = "validate_done"
       ELSE IF ps.step = Len(ValidateWriteSteps(ps))
       THEN /\ ps' = [ps EXCEPT !.result = [Changed(@, op) EXCEPT !.updated = TRUE]]
            /\ pc' = "validate_done"
       ELSE /\ ps' = [ps EXCEPT !.result = Changed(@, op), !.step = @ + 1]
            /\ pc' = pc
    /\ UNCHANGED <<disk, m4d_players, main, exc, m4d_before, flagsVars, selVars, trVars, lookupVars, csvVars>>

\* token = request_token(api_key, organization) of the update
ValidateUpdateToken(ok) == ValidateUpdateStep("token", ok)

\* patch_player_city(token, player_id, city_en)
ValidatePatchPlayerCity(ok) == ValidateUpdateStep("patch_city", ok)

\* set_player_reseller(token, player_id, reseller_en)
ValidateSetPlayerReseller(ok) == ValidateUpdateStep("set_reseller", ok)

\* set_player_sector(token, player_id, sector_en)
ValidateSetPlayerSector(ok) == ValidateUpdateStep("set_sector", ok)

ValidateNext ==
    \/ ValidateBegin
    \/ \E ok \in Outcomes : ValidateToken(ok)
    \/ \E ok \in Outcomes : ValidateFetchPlayer(ok)
    \/ \E ok \in Outcomes : ValidateUpdateToken(ok)
    \/ \E ok \in Outcomes : ValidatePatchPlayerCity(ok)
    \/ \E ok \in Outcomes : ValidateSetPlayerReseller(ok)
    \/ \E ok \in Outcomes : ValidateSetPlayerSector(ok)

\* The identifier validate_and_correct_player works with.
ValidatedIdentifier == Strip(Or(ps.player.identifier, Or(ps.player.name, <<>>)))

\* The sector code the CSV and the sector dictionary give for a site number.
ExpectedSectorCode(site_number) ==
    LET sector_he == ValidateFindSiteField(ValidateCsv, site_number, "sector",
                                           Get(ValidateDictionaries, "sector_dictionary")).value
    IN  IF Truthy(sector_he) THEN TranslateSector(sector_he, ValidateDictionaries).value
        ELSE GENERAL

CityIsDictionaryValue(attrs) ==
    attrs.city \in GetAllDictionaryValues(ValidateDictionaries, "cities_dictionary")

ResellerIsDictionaryValue(attrs) ==
    attrs.reseller \in GetAllDictionaryValues(ValidateDictionaries, "reseller_dictionary")

SectorIsExpected(attrs) ==
    Truthy(ExtractSiteNumber(ValidatedIdentifier))
        => attrs.sector = ExpectedSectorCode(ExtractSiteNumber(ValidatedIdentifier))

\* The player was valid in the vendor system when the invocation started.
ValidBefore ==
    /\ ps.player.id # NoId
    /\ CityIsDictionaryValue(m4d_before[ps.player.id])
    /\ ResellerIsDictionaryValue(m4d_before[ps.player.id])
    /\ SectorIsExpected(m4d_before[ps.player.id])

ValidateWriteOps == {"patch_city", "set_reseller", "set_sector"}

NoWriteCall == \A k \in 1..Len(calls) : calls[k].op \notin ValidateWriteOps

\* Every write request in the log is for an attribute judged invalid.
WritesOnlyJudgedInvalid ==
    \A k \in 1..Len(calls) :
       /\ calls[k].op = "patch_city" => ps.result.city_invalid
       /\ calls[k].op = "set_reseller" => ps.result.reseller_invalid
       /\ calls[k].op = "set_sector" => ps.result.sector_invalid

\* The token and the player's details were obtained.
DetailsFetched == Len(calls) >= 2 /\ calls[1].ok /\ calls[2].ok

CityUnresolvable(site_number) ==
    LET city_he == ValidateFindSiteField(ValidateCsv, site_number, "city",
                                         Get(ValidateDictionaries, "cities_dictionary")).value
    IN  \/ ~Truthy(city_he)
        \/ ~Truthy(ValidateTranslateCity(city_he, ValidateDictionaries).value)

ResellerUnresolvable(site_number) ==
    LET reseller_he == ValidateFindSiteField(ValidateCsv, site_number, "reseller",
                                             Get(ValidateDictionaries, "reseller_dictionary")).value
    IN  \/ ~Truthy(reseller_he)
        \/ ~Truthy(ValidateTranslateReseller(reseller_he, ValidateDictionaries).value)

Unresolvable ==
    /\ ps.player.id # NoId
    /\ LET attrs == m4d_before[ps.player.id]
           site_number == ExtractSiteNumber(ValidatedIdentifier)
       IN  \/ /\ ~Truthy(site_number)
              /\ ~CityIsDictionaryValue(attrs) \/ ~ResellerIsDictionaryValue(attrs)
           \/ ~CityIsDictionaryValue(attrs) /\ CityUnresolvable(site_number)
           \/ ~ResellerIsDictionaryValue(attrs) /\ ResellerUnresolvable(site_number)

\* C30: when an attribute judged invalid cannot be resolved, no write call at all
\* is issued for the player, the other invalid attributes included, and the
\* result has error set, updated = false and every *_changed = false.
C30_UnresolvedMeansNoWrite ==
    Unresolvable =>
       /\ NoWriteCall
       /\ m4d_attrs = m4d_before
       /\ pc = "validate_done" =>
             /\ ps.result.error # None
             /\ ~ps.result.updated
             /\ ~ps.result.city_changed
             /\ ~ps.result.reseller_changed
             /\ ~ps.result.sector_changed

\* The city of the player is invalid and unresolvable while its reseller is
\* invalid and resolvable, and the invocation returned after the validation.
C30_Witness ==
    /\ pc = "validate_done"
    /\ DetailsFetched
    /\ Unresolvable
    /\ ps.result.city_invalid /\ ps.result.reseller_invalid
    /\ ~ResellerUnresolvable(ps.result.site_number)

-----------------------------------------------------------------------------
(* SpecCsv: the generator iter_csv_rows and its consumer *)

MaxLines == 3

\* The encodings every caller hands to iter_csv_rows, in order.
Encodings == <<"utf-8-sig", "utf-8", "windows-1255", "cp1255", "iso-8859-8", "latin1">>

\* The encodings under which a line of the file decodes: plain ASCII under every
\* one, Hebrew stored in windows-1255 not under UTF-8, a byte undefined in the
\* Hebrew code pages only under latin1. A line stands for what one read of the
\* file decodes.
LineKinds ==
    { {"utf-8-sig", "utf-8", "windows-1255", "cp1255", "iso-8859-8", "latin1"},
      {"windows-1255", "cp1255", "iso-8859-8", "latin1"},
      {"latin1"} }

NoGenerator == [at |-> "idle", encoding |-> 0, line |-> 0]

\* yield: the consumer receives the line as decoded under the current encoding.
Yield(n) == Append(delivered, [line |-> n, encoding |-> Encodings[it.encoding]])

\* except Exception: continue (and `continue` for an empty file)
NextEncoding ==
    [at |-> "for_encoding", encoding |-> it.encoding + 1, line |-> 0]

\* for encoding in encodings: the file is opened and header = next(reader, None);
\* a header is yielded, an empty file and a decoding error pass to the next
\* encoding.
OpenAndReadHeader ==
    /\ it.at = "for_encoding"
    /\ it.encoding <= Len(Encodings)
    /\ IF csv_file = <<>> \/ Encodings[it.encoding] \notin csv_file[1]
       THEN /\ it' = NextEncoding
            /\ delivered' = delivered
       ELSE /\ delivered' = Yield(1)
            /\ it' = [it EXCEPT !.at = "for_row", !.line = 2]
    /\ UNCHANGED <<csv_file, flagsVars, selVars, trVars, batchVars, lookupVars, serverVars>>

\* for row in reader: yield row; a decoding error is caught by the except clause
\* of the encoding loop.
ReadRow ==
    /\ it.at = "for_row"
    /\ it.line <= Len(csv_file)
    /\ IF Encodings[it.encoding] \in csv_file[it.line]
       THEN /\ delivered' = Yield(it.line)
            /\ it' = [it EXCEPT !.line = @ + 1]
       ELSE /\ delivered' = delivered
            /\ it' = NextEncoding
    /\ UNCHANGED <<csv_file, flagsVars, selVars, trVars, batchVars, lookupVars, serverVars>>

\* return, after the last row
GeneratorReturn ==
    /\ it.at = "for_row"
    /\ it.line > Len(csv_file)
    /\ it' = [it EXCEPT !.at = "returned"]
    /\ UNCHANGED <<csv_file, delivered, flagsVars, selVars, trVars, batchVars, lookupVars, serverVars>>

\* raise RuntimeError, after the last encoding
GeneratorRaise ==
    /\ it.at = "for_encoding"
    /\ it.encoding > Len(Encodings)
    /\ it' = [it EXCEPT !.at = "raised"]
    /\ UNCHANGED <<csv_file, delivered, flagsVars, selVars, trVars, batchVars, lookupVars, serverVars>>

CsvNext ==
    \/ OpenAndReadHeader
    \/ ReadRow
    \/ GeneratorReturn
    \/ GeneratorRaise

\* The number of times line n was delivered.
Deliveries(n) == Cardinality({k \in 1..Len(delivered) : delivered[k].line = n})

\* C29: iter_csv_rows delivers the header exactly once, followed by each data row
\* at most once, all decoded under one single encoding; a decoding error after
\* some rows were delivered does not deliver the header or earlier rows again.
C29_EachLineOnceOneEncoding ==
    /\ delivered # <<>> => (delivered[1].line = 1 /\ Deliveries(1) = 1)
    /\ \A n \in 2..Len(csv_file) : Deliveries(n) <= 1
    /\ \A k, m \in 1..Len(delivered) : delivered[k].encoding = delivered[m].encoding
    /\ it.at = "returned" => Deliveries(1) = 1

-----------------------------------------------------------------------------
(* Specifications *)

FlagsInit ==
    /\ fl_args \in FlagArgs
    /\ m4d_flags \in [PlayerIds -> InitialFlags]
    /\ posts = <<>>
    /\ players = <<>> /\ site_id = <<>> /\ target_players = <<>>
    /\ ctx = NoContext /\ cls = <<>> /\ sel_pc = "start"
    /\ dictionaries = <<>> /\ label = <<>> /\ tr_call = "" /\ tr_result = Return(None)
    /\ disk = IdleDisk /\ m4d_players = <<>> /\ pc = "idle" /\ main = NoMain
    /\ ps = NoFrame /\ token_no = 0 /\ calls = <<>> /\ exc = ""
    /\ csv_rows = <<>> /\ lk_site = <<>> /\ lk_dictionaries = <<>>
    /\ lk_call = "" /\ lk_result = Return(None)
    /\ m4d_attrs = <<>> /\ m4d_before = <<>>
    /\ csv_file = <<>> /\ it = NoGenerator /\ delivered = <<>>

SpecFlags == FlagsInit /\ [][FlagsNext]_vars
SelectInit ==
    /\ players \in SeqsUpTo(PlayerPool, MaxPlayers)
    /\ site_id \in SiteIds
    /\ target_players = <<>> /\ ctx = NoContext /\ cls = <<>> /\ sel_pc = "start"
    /\ fl_args = IdleArgs /\ m4d_flags = [p \in PlayerIds |-> Unset] /\ posts = <<>>
    /\ dictionaries = <<>> /\ label = <<>> /\ tr_call = "" /\ tr_result = Return(None)
    /\ disk = IdleDisk /\ m4d_players = <<>> /\ pc = "idle" /\ main = NoMain
    /\ ps = NoFrame /\ token_no = 0 /\ calls = <<>> /\ exc = ""
    /\ csv_rows = <<>> /\ lk_site = <<>> /\ lk_dictionaries = <<>>
    /\ lk_call = "" /\ lk_result = Return(None)
    /\ m4d_attrs = <<>> /\ m4d_before = <<>>
    /\ csv_file = <<>> /\ it = NoGenerator /\ delivered = <<>>

SpecSelect == SelectInit /\ [][SelectNext]_vars

TranslateInit ==
    /\ \E name \in DictNames, d \in Dicts : dictionaries = [n \in {name} |-> d]
    /\ label \in Labels
    /\ tr_call = "" /\ tr_result = Return(None)
    /\ fl_args = IdleArgs /\ m4d_flags = [p \in PlayerIds |-> Unset] /\ posts = <<>>
    /\ players = <<>> /\ site_id = <<>> /\ target_players = <<>>
    /\ ctx = NoContext /\ cls = <<>> /\ sel_pc = "start"
    /\ disk = IdleDisk /\ m4d_players = <<>> /\ pc = "idle" /\ main = NoMain
    /\ ps = NoFrame /\ token_no = 0 /\ calls = <<>> /\ exc = ""
    /\ csv_rows = <<>> /\ lk_site = <<>> /\ lk_dictionaries = <<>>
    /\ lk_call = "" /\ lk_result = Return(None)
    /\ m4d_attrs = <<>> /\ m4d_before = <<>>
    /\ csv_file = <<>> /\ it = NoGenerator /\ delivered = <<>>

SpecTranslate == TranslateInit /\ [][TranslateNext]_vars
BatchInit ==
    /\ disk \in [missing_exists : BOOLEAN, csv_exists : BOOLEAN, dict_exists : BOOLEAN,
                  backlog : SeqsUpTo(BacklogRows, MaxBacklog), writes : {0}]
    /\ m4d_players \in {BatchPlayers, <<>>}
    /\ pc = "start" /\ main = NoMain /\ ps = NoFrame
    /\ token_no = 0 /\ calls = <<>> /\ exc = ""
    /\ fl_args = IdleArgs /\ m4d_flags = [p \in PlayerIds |-> Unset] /\ posts = <<>>
    /\ players = <<>> /\ site_id = <<>> /\ target_players = <<>>
    /\ ctx = NoContext /\ cls = <<>> /\ sel_pc = "start"
    /\ dictionaries = <<>> /\ label = <<>> /\ tr_call = "" /\ tr_result = Return(None)
    /\ csv_rows = <<>> /\ lk_site = <<>> /\ lk_dictionaries = <<>>
    /\ lk_call = "" /\ lk_result = Return(None)
    /\ m4d_attrs \in {[p \in DriverPlayerIds |-> BlankAttrs], [p \in DriverPlayerIds |-> StaleAttrs]}
    /\ m4d_before = <<>>
    /\ csv_file = <<>> /\ it = NoGenerator /\ delivered = <<>>

SpecBatch == BatchInit /\ [][BatchNext]_vars
DriversInit ==
    /\ pc \in {"start", "update_start"}
    /\ disk \in [missing_exists : BOOLEAN, csv_exists : BOOLEAN, dict_exists : BOOLEAN,
                  backlog : SeqsUpTo(BacklogRows, MaxBacklog), writes : {0}]
    /\ pc = "update_start" => (disk.backlog = <<>> /\ ~disk.missing_exists)
    /\ m4d_players \in {BatchPlayers, <<>>}
    /\ main = NoMain /\ ps = NoFrame
    /\ token_no = 0 /\ calls = <<>> /\ exc = ""
    /\ fl_args = IdleArgs /\ m4d_flags = [p \in PlayerIds |-> Unset] /\ posts = <<>>
    /\ players = <<>> /\ site_id = <<>> /\ target_players = <<>>
    /\ ctx = NoContext /\ cls = <<>> /\ sel_pc = "start"
    /\ dictionaries = <<>> /\ label = <<>> /\ tr_call = "" /\ tr_result = Return(None)
    /\ csv_rows = <<>> /\ lk_site = <<>> /\ lk_dictionaries = <<>>
    /\ lk_call = "" /\ lk_result = Return(None)
    /\ m4d_attrs \in {[p \in DriverPlayerIds |-> BlankAttrs], [p \in DriverPlayerIds |-> StaleAttrs]}
    /\ m4d_before = <<>>
    /\ csv_file = <<>> /\ it = NoGenerator /\ delivered = <<>>

SpecDrivers == DriversInit /\ [][DriversNext]_vars
LookupInit ==
    /\ csv_rows \in SeqsUpTo(LookupRows, MaxRows)
    /\ lk_site \in LookupSites
    /\ lk_dictionaries \in [LookupDictNames -> LookupDicts]
    /\ lk_call = "" /\ lk_result = Return(None)
    /\ fl_args = IdleArgs /\ m4d_flags = [p \in PlayerIds |-> Unset] /\ posts = <<>>
    /\ players = <<>> /\ site_id = <<>> /\ target_players = <<>>
    /\ ctx = NoContext /\ cls = <<>> /\ sel_pc = "start"
    /\ dictionaries = <<>> /\ label = <<>> /\ tr_call = "" /\ tr_result = Return(None)
    /\ disk = IdleDisk /\ m4d_players = <<>> /\ pc = "idle" /\ main = NoMain
    /\ ps = NoFrame /\ token_no = 0 /\ calls = <<>> /\ exc = ""
    /\ m4d_attrs = <<>> /\ m4d_before = <<>>
    /\ csv_file = <<>> /\ it = NoGenerator /\ delivered = <<>>

SpecLookup == LookupInit /\ [][LookupNext]_vars

AuditInit ==
    /\ disk \in [csv_exists : BOOLEAN, output : {<<>>}, writes : {0}]
    /\ m4d_players \in {BatchPlayers, <<>>}
    /\ m4d_attrs \in [DriverPlayerIds -> AttrPool]
    /\ pc = "audit_start" /\ main = [NoAudit EXCEPT !.rows = AuditRows] /\ ps = NoFrame
    /\ token_no = 0 /\ calls = <<>> /\ exc = "" /\ m4d_before = <<>>
    /\ fl_args = IdleArgs /\ m4d_flags = [p \in PlayerIds |-> Unset] /\ posts = <<>>
    /\ players = <<>> /\ site_id = <<>> /\ target_players = <<>>
    /\ ctx = NoContext /\ cls = <<>> /\ sel_pc = "start"
    /\ dictionaries = <<>> /\ label = <<>> /\ tr_call = "" /\ tr_result = Return(None)
    /\ csv_rows = <<>> /\ lk_site = <<>> /\ lk_dictionaries = <<>>
    /\ lk_call = "" /\ lk_result = Return(None)
    /\ csv_file = <<>> /\ it = NoGenerator /\ delivered = <<>>

SpecAudit == AuditInit /\ [][AuditNext]_vars

ValidateInit ==
    /\ \E p \in ValidatePlayers, a \in ValidateAttrs :
          /\ ps = ValidateFrame(p)
          /\ m4d_attrs = IF p.id = NoId THEN <<>> ELSE (p.id :> a)
    /\ m4d_before = m4d_attrs
    /\ pc = "validate_start" /\ disk = IdleDisk /\ m4d_players = <<>> /\ main = NoMain
    /\ token_no = 0 /\ calls = <<>> /\ exc = ""
    /\ fl_args = IdleArgs /\ m4d_flags = [p \in PlayerIds |-> Unset] /\ posts = <<>>
    /\ players = <<>> /\ site_id = <<>> /\ target_players = <<>>
    /\ ctx = NoContext /\ cls = <<>> /\ sel_pc = "start"
    /\ dictionaries = <<>> /\ label = <<>> /\ tr_call = "" /\ tr_result = Return(None)
    /\ csv_rows = <<>> /\ lk_site = <<>> /\ lk_dictionaries = <<>>
    /\ lk_call = "" /\ lk_result = Return(None)
    /\ csv_file = <<>> /\ it = NoGenerator /\ delivered = <<>>

SpecValidate == ValidateInit /\ [][ValidateNext]_vars

CsvInit ==
    /\ csv_file \in SeqsUpTo(LineKinds, MaxLines)
    /\ it = [at |-> "for_encoding", encoding |-> 1, line |-> 0]
    /\ delivered = <<>>
    /\ fl_args = IdleArgs /\ m4d_flags = [p \in PlayerIds |-> Unset] /\ posts = <<>>
    /\ players = <<>> /\ site_id = <<>> /\ target_players = <<>>
    /\ ctx = NoContext /\ cls = <<>> /\ sel_pc = "start"
    /\ dictionaries = <<>> /\ label = <<>> /\ tr_call = "" /\ tr_result = Return(None)
    /\ disk = IdleDisk /\ m4d_players = <<>> /\ pc = "idle" /\ main = NoMain
    /\ ps = NoFrame /\ token_no = 0 /\ calls = <<>> /\ exc = ""
    /\ csv_rows = <<>> /\ lk_site = <<>> /\ lk_dictionaries = <<>>
    /\ lk_call = "" /\ lk_result = Return(None)
    /\ m4d_attrs = <<>> /\ m4d_before = <<>>

SpecCsv == CsvInit /\ [][CsvNext]_vars

RerunInit ==
    /\ pc = "update_start"
    /\ disk = [IdleDisk EXCEPT !.csv_exists = TRUE, !.dict_exists = TRUE]
    /\ m4d_players \in {BatchPlayers, <<>>}
    /\ m4d_attrs \in {[p \in DriverPlayerIds |-> BlankAttrs], [p \in DriverPlayerIds |-> StaleAttrs]}
    /\ m4d_before = <<>>
    /\ main = NoMain /\ ps = NoFrame
    /\ token_no = 0 /\ calls = <<>> /\ exc = ""
    /\ fl_args = IdleArgs /\ m4d_flags = [p \in PlayerIds |-> Unset] /\ posts = <<>>
    /\ players = <<>> /\ site_id = <<>> /\ target_players = <<>>
    /\ ctx = NoContext /\ cls = <<>> /\ sel_pc = "start"
    /\ dictionaries = <<>> /\ label = <<>> /\ tr_call = "" /\ tr_result = Return(None)
    /\ csv_rows = <<>> /\ lk_site = <<>> /\ lk_dictionaries = <<>>
    /\ lk_call = "" /\ lk_result = Return(None)
    /\ csv_file = <<>> /\ it = NoGenerator /\ delivered = <<>>

SpecRerun == RerunInit /\ [][RerunNext]_vars

====
